---- MODULE Spec2Model ----
(***************************************************************************)
(* Event-registration and check-in bot (HokkyStyle/krdnt_spc).             *)
(*                                                                         *)
(* The durable store (local_storage.py), the business facade (sheets.py),  *)
(* the end-user and administrator handlers (main.py, admin_handlers.py),   *)
(* the scheduler jobs (scheduler.py), the broadcast fan-out (broadcast.py) *)
(* and the pure utilities (utils.py) as one state machine.                 *)
(*                                                                         *)
(* Time is counted in minutes.  Identifiers are integers: event id n       *)
(* stands for the zero-padded text "00n", registration id n for "n".       *)
(* The empty string of a timestamp field is NoTime, the absent value       *)
(* (None) of waitlist_position is NoPosition.                              *)
(***************************************************************************)
EXTENDS Integers, Sequences, FiniteSets, TLC

VARIABLES
    now,            \* wall clock, minutes
    events,         \* local_storage.data['events']: event_id -> record
    users,          \* local_storage.data['users'] in insertion order
    users_json,     \* the file users.json as user_manager reads it
    registrations,  \* local_storage.data['registrations']: registration_id -> record
    blacklist,      \* local_storage.data['blacklist']: set of user ids (keys)
    reminders,      \* local_storage.data['reminders']: <<event, user, type>> -> record
    fsm,            \* aiogram FSM storage: caller -> [state, event_id]
    offerKb,        \* registration ids with a delivered "take_place_<id>" button
    cancelKb,       \* registration ids with a delivered "reminder_cancel_<id>" button
    adminKb,        \* registration ids with a delivered "admin_checkin_<id>" button
    holds,          \* pending one-shot scheduler jobs hold_<id>: set of [rid, eid, run_at]
    reply,          \* the last handler's outcome: what was answered, to whom, about what
    bc,             \* the broadcast fan-out in progress
    probe           \* inputs and results of the pure-function specifications;
                    \* the handler tasks waiting for a platform call

vars == <<now, events, users, users_json, registrations, blacklist, reminders,
          fsm, offerKb, cancelKb, adminKb, holds, reply, bc, probe>>

storeVars == <<events, users, users_json, registrations, blacklist, reminders>>

-----------------------------------------------------------------------------
(* Bounds of the model *)

MaxUsers == 2
MaxEvents == 1
MaxRegs == 2
MaxArrivals == 4
MaxCapacity == 1

(* Program constants *)

GRACE_PERIOD == 120
PLACE_HOLD_TIME == 15
CHECKIN_WINDOW_START == -60
CHECKIN_WINDOW_END == 120
REMINDER_DAY == 1440
REMINDER_SIX_HOURS == 360
REMINDER_ONE_HOUR == 60
WAITLIST_CANCEL_LEAD == 60

NoTime == -1
NoPosition == 0
NoEvent == 0

ADMIN_IDS == {MaxUsers + 1, MaxUsers + 2}
UserIds == 1..MaxUsers
Callers == UserIds \cup ADMIN_IDS

(* The chats commands arrive from: one administrator, and one end user for *)
(* the commands reserved to administrators; the user the block-list        *)
(* commands name.                                                          *)
AdminInputs == {MaxUsers + 1}
CommandInputs == AdminInputs \cup {1}
BlacklistInputs == {1}

(* The instants the clock visits: long before an event starting at         *)
(* EventStart, and the opening of its check-in window.                     *)
EventStart == 1500
StartInputs == {EventStart}
Instants == {0, EventStart - 60}
LateInstants == Instants \cup {EventStart + GRACE_PERIOD + 1}
CapacityInputs == 0..MaxCapacity


-----------------------------------------------------------------------------
(* Helpers *)

Max(S) == CHOOSE x \in S : \A y \in S : y <= x

-----------------------------------------------------------------------------
(* utils.py *)

(* generate_qr_token: HMAC-SHA256 of "<registration_id>_<event_id>_<user_id>" *)
(* under the secret key.  The keyed hash is modelled as injective on the      *)
(* signed text; the signed text is the sequence of its "_"-separated fields.  *)
(* The provisional key "reg_<user>_<event>" used by the handlers is the field *)
(* sequence <<RegPrefix, user, event>>.                                       *)
RegPrefix == 0 - 1
ProvisionalKey(user_id, event_id) == <<RegPrefix, user_id, event_id>>
RegistrationKey(registration_id) == <<registration_id>>

generate_qr_token(key, event_id, user_id) == key \o <<event_id, user_id>>

verify_qr_token(token, key, event_id, user_id) ==
    token = generate_qr_token(key, event_id, user_id)

NoToken == <<>>

(* is_within_checkin_window: the event's stored offsets, or the defaults   *)
(* of event_data.get for an offset the record does not hold                *)
DEFAULT_WINDOW_START == -60
DEFAULT_WINDOW_END == 120

is_within_checkin_window_exclusive(event, t) ==
    LET checkin_start == event.start_at +
                            (IF "checkin_window_start_minutes" \in DOMAIN event
                             THEN event.checkin_window_start_minutes
                             ELSE DEFAULT_WINDOW_START)
        checkin_end == event.start_at +
                          (IF "checkin_window_end_minutes" \in DOMAIN event
                           THEN event.checkin_window_end_minutes
                           ELSE DEFAULT_WINDOW_END)
    IN  checkin_start < t /\ t < checkin_end

is_within_checkin_window(event, t) ==
    LET checkin_start == event.start_at +
                            (IF "checkin_window_start_minutes" \in DOMAIN event
                             THEN event.checkin_window_start_minutes
                             ELSE DEFAULT_WINDOW_START)
        checkin_end == event.start_at +
                          (IF "checkin_window_end_minutes" \in DOMAIN event
                           THEN event.checkin_window_end_minutes
                           ELSE DEFAULT_WINDOW_END)
    IN  checkin_start <= t /\ t <= checkin_end

(* validate_fullname on an abstract name: its length, its number of words, *)
(* and whether every character is a letter, whitespace, "-" or "'"         *)
NameInputs ==
    { [len |-> 11, words |-> 2, charsOk |-> TRUE],
      [len |-> 4,  words |-> 1, charsOk |-> TRUE],
      [len |-> 2,  words |-> 2, charsOk |-> TRUE],
      [len |-> 101, words |-> 2, charsOk |-> TRUE],
      [len |-> 11, words |-> 2, charsOk |-> FALSE] }

validate_fullname(name) ==
    /\ ~(name.len < 3 \/ name.len > 100)
    /\ ~(name.words < 2)
    /\ name.charsOk

-----------------------------------------------------------------------------
(* local_storage.py *)

EmptyMap == [x \in {} |-> 0]

event_exists(evs, event_id) == event_id \in DOMAIN evs

get_next_event_id(evs) ==
    IF DOMAIN evs = {} THEN 1 ELSE Max(DOMAIN evs \cup {0}) + 1

get_next_registration_id_last(regs) ==
    IF DOMAIN regs = {} THEN 1 ELSE Max(DOMAIN regs \cup {0})

get_next_registration_id(regs) ==
    IF DOMAIN regs = {} THEN 1 ELSE Max(DOMAIN regs \cup {0}) + 1

get_registrations_count(regs, event_id, status) ==
    Cardinality({r \in DOMAIN regs :
                    regs[r].event_id = event_id /\ regs[r].status = status})

get_waitlist_count(regs, event_id) ==
    get_registrations_count(regs, event_id, "waitlist")

ActiveStatuses == {"registered", "waitlist", "attended"}

(* get_user_registration: the first registration in insertion order (ids   *)
(* are inserted ascending) of the user for the event with an active status *)
HasUserRegistration(regs, user_id, event_id) ==
    \E r \in DOMAIN regs :
        /\ regs[r].user_id = user_id
        /\ regs[r].event_id = event_id
        /\ regs[r].status \in ActiveStatuses

get_user_registration(regs, user_id, event_id) ==
    CHOOSE r \in DOMAIN regs :
        /\ regs[r].user_id = user_id
        /\ regs[r].event_id = event_id
        /\ regs[r].status \in ActiveStatuses
        /\ \A q \in DOMAIN regs :
              (/\ regs[q].user_id = user_id
               /\ regs[q].event_id = event_id
               /\ regs[q].status \in ActiveStatuses) => r <= q

is_blacklisted(bl, user_id) == user_id \in bl

(* update_registration: merge the fields and re-stamp updated_at; a no-op  *)
(* for an unknown id                                                       *)
update_registration(regs, registration_id, updates, t) ==
    IF registration_id \in DOMAIN regs
    THEN [regs EXCEPT ![registration_id] =
            [@ EXCEPT
                !.status = IF "status" \in DOMAIN updates THEN updates.status ELSE @,
                !.checkin_at = IF "checkin_at" \in DOMAIN updates
                               THEN updates.checkin_at ELSE @,
                !.qr_token = IF "qr_token" \in DOMAIN updates
                             THEN updates.qr_token ELSE @,
                !.updated_at = t]]
    ELSE regs

(* add_user: only a user id not yet present is stored *)
UserKnown(us, user_id) == \E i \in 1..Len(us) : us[i].user_id = user_id

add_user(us, user_id) ==
    IF UserKnown(us, user_id) THEN us
    ELSE Append(us, [user_id |-> user_id, is_blacklisted |-> FALSE])


-----------------------------------------------------------------------------
(* user_manager.py: the flat registry lives in the same file users.json    *)
(* that local_storage rewrites as a mapping on every save of 'users'.      *)

EmptyRegistry == [shape |-> "list", items |-> <<>>]

(* save_locally('users'): the file now holds the store's mapping *)
SavedUsers(us) == [shape |-> "dict", items |-> us]

(* UserManager.add_user: appends to a list-shaped file; iterating a        *)
(* mapping-shaped file raises inside the try block and nothing is written  *)
registry_add_user(file, user_id) ==
    IF file.shape = "list"
    THEN IF \E i \in 1..Len(file.items) : file.items[i].user_id = user_id
         THEN file
         ELSE [file EXCEPT !.items = Append(@, [user_id |-> user_id,
                                                 is_blacklisted |-> FALSE])]
    ELSE file

(* UserManager.get_all_users as broadcast.py normalises it: the records of *)
(* a list, or the values of a mapping                                      *)
get_all_users(file) == file.items

-----------------------------------------------------------------------------
(* sheets.py: the business facade *)

(* create_registration: (registration_id, status, waitlist_position), or   *)
(* the absent triple for an unknown event                                  *)
AbsentResult == [registration_id |-> 0, status |-> "none", waitlist_position |-> NoPosition]

create_registration_result_past_capacity(regs, evs, event_id) ==
    IF ~event_exists(evs, event_id) THEN AbsentResult
    ELSE LET registered_count == get_registrations_count(regs, event_id, "registered")
             capacity == evs[event_id].capacity
         IN  IF registered_count > capacity
             THEN [registration_id |-> get_next_registration_id(regs),
                   status |-> "waitlist",
                   waitlist_position |-> get_waitlist_count(regs, event_id) + 1]
             ELSE [registration_id |-> get_next_registration_id(regs),
                   status |-> "registered",
                   waitlist_position |-> NoPosition]

create_registration_result_overflow_position(regs, evs, event_id) ==
    IF ~event_exists(evs, event_id) THEN AbsentResult
    ELSE LET registered_count == get_registrations_count(regs, event_id, "registered")
             capacity == evs[event_id].capacity
         IN  IF registered_count >= capacity
             THEN [registration_id |-> get_next_registration_id(regs),
                   status |-> "waitlist",
                   waitlist_position |-> registered_count - capacity + 1]
             ELSE [registration_id |-> get_next_registration_id(regs),
                   status |-> "registered",
                   waitlist_position |-> NoPosition]

create_registration_result(regs, evs, event_id) ==
    IF ~event_exists(evs, event_id) THEN AbsentResult
    ELSE LET registered_count == get_registrations_count(regs, event_id, "registered")
             capacity == evs[event_id].capacity
         IN  IF registered_count >= capacity
             THEN [registration_id |-> get_next_registration_id(regs),
                   status |-> "waitlist",
                   waitlist_position |-> get_waitlist_count(regs, event_id) + 1]
             ELSE [registration_id |-> get_next_registration_id(regs),
                   status |-> "registered",
                   waitlist_position |-> NoPosition]

create_registration(regs, evs, user_id, event_id, qr_token, t) ==
    LET res == create_registration_result(regs, evs, event_id)
    IN  IF res.registration_id = 0 THEN regs
        ELSE [r \in DOMAIN regs \cup {res.registration_id} |->
                IF r = res.registration_id
                THEN [event_id |-> event_id,
                      user_id |-> user_id,
                      status |-> res.status,
                      waitlist_position |-> res.waitlist_position,
                      qr_token |-> qr_token,
                      checkin_at |-> NoTime,
                      updated_at |-> t]
                ELSE regs[r]]

update_registration_status_clearing(regs, registration_id, status, checkin_at, t) ==
    update_registration(regs, registration_id,
                        [status |-> status, checkin_at |-> checkin_at], t)

update_registration_status_stamping(regs, registration_id, status, checkin_at, t) ==
    update_registration(regs, registration_id,
                        [status |-> status, checkin_at |-> t], t)

(* update_registration_status: the status, and checkin_at only when given *)
update_registration_status(regs, registration_id, status, checkin_at, t) ==
    IF checkin_at = NoTime
    THEN update_registration(regs, registration_id, [status |-> status], t)
    ELSE update_registration(regs, registration_id,
                             [status |-> status, checkin_at |-> checkin_at], t)

cancel_registration(regs, registration_id, t) ==
    update_registration_status(regs, registration_id, "cancelled", NoTime, t)

(* create_reminder: stored under "<event>_<user>_<type>", replacing any    *)
(* record already under that key                                           *)
create_reminder(rems, event_id, user_id, scheduled_for, type) ==
    [k \in DOMAIN rems \cup {<<event_id, user_id, type>>} |->
        IF k = <<event_id, user_id, type>>
        THEN [scheduled_for |-> scheduled_for, sent_at |-> NoTime]
        ELSE rems[k]]

ReminderOffset(type) ==
    IF type = "D1" THEN REMINDER_DAY
    ELSE IF type = "H6" THEN REMINDER_SIX_HOURS
    ELSE REMINDER_ONE_HOUR

schedule_reminders_unguarded(rems, types, event_id, user_id, evs, t) ==
    LET created == {<<event_id, user_id, types[i]>> : i \in DOMAIN types} IN
    [k \in DOMAIN rems \cup created |->
        IF k \in created
        THEN [scheduled_for |-> evs[event_id].start_at - ReminderOffset(k[3]),
              sent_at |-> NoTime]
        ELSE rems[k]]

(* the reminders process_fullname schedules: each type whose time is still *)
(* strictly in the future                                                  *)
RECURSIVE schedule_reminders(_, _, _, _, _, _)
schedule_reminders(rems, types, event_id, user_id, evs, t) ==
    IF types = <<>> THEN rems
    ELSE LET type == Head(types)
             at == evs[event_id].start_at - ReminderOffset(type)
             next == IF at > t
                     THEN create_reminder(rems, event_id, user_id, at, type)
                     ELSE rems
         IN  schedule_reminders(next, Tail(types), event_id, user_id, evs, t)

(* the event record cmd_post hands to create_event *)
EventRecord(start_at, capacity) ==
    [start_at |-> start_at,
     capacity |-> capacity,
     checkin_window_start_minutes |-> CHECKIN_WINDOW_START,
     checkin_window_end_minutes |-> CHECKIN_WINDOW_END]

(* "event has passed": start_at < now - 2 hours *)
event_passed(event, t) == event.start_at < t - GRACE_PERIOD

-----------------------------------------------------------------------------
(* Handler outcomes *)

Rep(op, to, rid, eid, text, token) ==
    [op |-> op, to |-> to, rid |-> rid, eid |-> eid, text |-> text, token |-> token]

NoReply == Rep("none", 0, 0, NoEvent, "none", NoToken)

Idle == [state |-> "none", event_id |-> NoEvent]
WaitingFullname(event_id) == [state |-> "waiting_fullname", event_id |-> event_id]
WaitingEventPost(event_id) == [state |-> "waiting_for_event_post", event_id |-> event_id]

is_admin(user_id) == user_id \in ADMIN_IDS


-----------------------------------------------------------------------------
(* Initial state: empty collections, as LocalStorage.__init__ leaves them  *)
(* when no file exists, and the empty list UserManager writes              *)

(* the number of registrations the dialogue may create: MaxRegs, and       *)
(* MaxArrivals where the arrivals at a queue are followed                  *)
Arrivals == [kind |-> "arrivals"]
RegsBound == IF probe = Arrivals THEN MaxArrivals ELSE MaxRegs

IdleBroadcast == [pc |-> "idle", kind |-> "none", users_to_process |-> <<>>,
                  pos |-> 0, attempts |-> <<>>, skipped |-> <<>>]
NoProbe == [kind |-> "none"]

Init ==
    /\ now = 0
    /\ events = EmptyMap
    /\ users = <<>>
    /\ users_json = EmptyRegistry
    /\ registrations = EmptyMap
    /\ blacklist = {}
    /\ reminders = EmptyMap
    /\ fsm = [c \in Callers |-> Idle]
    /\ offerKb = {}
    /\ cancelKb = {}
    /\ adminKb = {}
    /\ holds = {}
    /\ reply = NoReply
    /\ bc = IdleBroadcast
    /\ probe = NoProbe

(* Time passes to the next of the given instants.  A due hold job runs     *)
(* before the clock moves on.                                              *)
Tick(instants) ==
    /\ \A j \in holds : j.run_at > now
    /\ \E t \in instants :
        /\ t > now
        /\ \A u \in instants : u > now => t <= u
        /\ now' = t
    /\ UNCHANGED <<storeVars, fsm, offerKb, cancelKb, adminKb, holds, reply, bc, probe>>

-----------------------------------------------------------------------------
(* main.py: end-user handlers *)

(* _generate_and_send_qr: the user's last registered-or-attended           *)
(* registration, its event not passed; issues a token when none is stored; *)
(* sends the proof image for chk_<registration_id>_<qr_token>              *)
ProofCandidates(regs, user_id) ==
    {r \in DOMAIN regs : regs[r].user_id = user_id
                         /\ regs[r].status \in {"registered", "attended"}}

generate_and_send_qr(op, user_id) ==
    LET cands == ProofCandidates(registrations, user_id) IN
    IF cands = {}
    THEN /\ reply' = Rep(op, user_id, 0, NoEvent, "no_active_registrations", NoToken)
         /\ UNCHANGED registrations
    ELSE LET rid == Max(cands)
             reg == registrations[rid]
         IN  IF ~event_exists(events, reg.event_id)
             THEN /\ reply' = Rep(op, user_id, rid, reg.event_id, "event_not_found", NoToken)
                  /\ UNCHANGED registrations
             ELSE IF event_passed(events[reg.event_id], now)
             THEN /\ reply' = Rep(op, user_id, rid, reg.event_id, "event_passed", NoToken)
                  /\ UNCHANGED registrations
             ELSE IF reg.qr_token = NoToken
             THEN LET tok == generate_qr_token(RegistrationKey(rid), reg.event_id, user_id)
                  IN  /\ registrations' = update_registration(registrations, rid,
                                                              [qr_token |-> tok], now)
                      /\ reply' = Rep(op, user_id, rid, reg.event_id, "proof_sent", tok)
             ELSE /\ reply' = Rep(op, user_id, rid, reg.event_id, "proof_sent", reg.qr_token)
                  /\ UNCHANGED registrations

(* handle_direct_registration *)
handle_direct_registration(user_id, event_id) ==
    IF ~event_exists(events, event_id)
    THEN /\ reply' = Rep("cmd_start", user_id, 0, event_id, "event_not_found", NoToken)
         /\ fsm' = [fsm EXCEPT ![user_id] = Idle]
         /\ UNCHANGED registrations
    ELSE IF event_passed(events[event_id], now)
    THEN /\ reply' = Rep("cmd_start", user_id, 0, event_id, "registration_closed", NoToken)
         /\ fsm' = [fsm EXCEPT ![user_id] = Idle]
         /\ UNCHANGED registrations
    ELSE IF HasUserRegistration(registrations, user_id, event_id)
    THEN LET rid == get_user_registration(registrations, user_id, event_id) IN
         /\ fsm' = [fsm EXCEPT ![user_id] = Idle]
         /\ IF registrations[rid].status = "registered"
            THEN generate_and_send_qr("cmd_start", user_id)
            ELSE /\ reply' = Rep("cmd_start", user_id, rid, event_id,
                                 registrations[rid].status, NoToken)
                 /\ UNCHANGED registrations
    ELSE /\ fsm' = [fsm EXCEPT ![user_id] = WaitingFullname(event_id)]
         /\ reply' = Rep("cmd_start", user_id, 0, event_id, "ask_fullname", NoToken)
         /\ UNCHANGED registrations

(* cmd_start: /start, plain (event_id = NoEvent) or with register_<event_id> *)
cmd_start(user_id, event_id) ==
    /\ users' = add_user(users, user_id)
    /\ users_json' = registry_add_user(
                        IF UserKnown(users, user_id) THEN users_json
                        ELSE SavedUsers(users'), user_id)
    /\ IF is_blacklisted(blacklist, user_id)
       THEN /\ reply' = Rep("cmd_start", user_id, 0, event_id, "unavailable", NoToken)
            /\ fsm' = [fsm EXCEPT ![user_id] = Idle]
            /\ UNCHANGED registrations
       ELSE IF event_id # NoEvent
       THEN handle_direct_registration(user_id, event_id)
       ELSE /\ reply' = Rep("cmd_start", user_id, 0, NoEvent, "greeting", NoToken)
            /\ fsm' = [fsm EXCEPT ![user_id] = Idle]
            /\ UNCHANGED registrations
    /\ UNCHANGED <<now, events, blacklist, reminders, offerKb, cancelKb, adminKb,
                   holds, bc, probe>>

(* start_registration: the "register_<event_id>" button of an event post *)
start_registration(user_id, event_id) ==
    /\ UserKnown(users, user_id)
    /\ event_exists(events, event_id)
    /\ IF is_blacklisted(blacklist, user_id)
       THEN /\ reply' = Rep("start_registration", user_id, 0, event_id, "unavailable", NoToken)
            /\ UNCHANGED fsm
       ELSE IF event_passed(events[event_id], now)
       THEN /\ reply' = Rep("start_registration", user_id, 0, event_id,
                            "registration_closed", NoToken)
            /\ UNCHANGED fsm
       ELSE IF HasUserRegistration(registrations, user_id, event_id)
       THEN /\ reply' = Rep("start_registration", user_id,
                            get_user_registration(registrations, user_id, event_id),
                            event_id, "already", NoToken)
            /\ UNCHANGED fsm
       ELSE /\ fsm' = [fsm EXCEPT ![user_id] = WaitingFullname(event_id)]
            /\ reply' = Rep("start_registration", user_id, 0, event_id,
                            "ask_fullname", NoToken)
    /\ UNCHANGED <<now, storeVars, offerKb, cancelKb, adminKb, holds, bc, probe>>

(* process_fullname: any message of a user in waiting_fullname.  sendOk is *)
(* whether the platform calls after the create (get_me, answer,            *)
(* answer_photo) succeed; when one raises, the handler ends there.         *)
process_fullname(user_id, name, sendOk) ==
    /\ fsm[user_id].state = "waiting_fullname"
    /\ IF ~validate_fullname(name)
       THEN /\ reply' = Rep("process_fullname", user_id, 0, fsm[user_id].event_id,
                            "invalid_fullname", NoToken)
            /\ UNCHANGED <<storeVars, fsm>>
       ELSE LET event_id == fsm[user_id].event_id
                qr_token == generate_qr_token(ProvisionalKey(user_id, event_id),
                                              event_id, user_id)
                res == create_registration_result(registrations, events, event_id)
            IN  /\ Cardinality(DOMAIN registrations) < RegsBound
                /\ users_json' = IF UserKnown(users, user_id)
                                 THEN SavedUsers(users) ELSE users_json
                /\ registrations' = create_registration(registrations, events, user_id,
                                                        event_id, qr_token, now)
                /\ IF res.registration_id = 0
                   THEN /\ reply' = Rep("process_fullname", user_id, 0, event_id,
                                        "registration_error", NoToken)
                        /\ fsm' = [fsm EXCEPT ![user_id] = Idle]
                        /\ UNCHANGED reminders
                   ELSE IF res.status = "registered"
                   THEN IF sendOk
                        THEN /\ reply' = Rep("process_fullname", user_id,
                                             res.registration_id, event_id,
                                             "proof_sent", qr_token)
                             /\ reminders' = schedule_reminders(reminders,
                                                <<"D1", "H6", "H1">>, event_id,
                                                user_id, events, now)
                             /\ fsm' = [fsm EXCEPT ![user_id] = Idle]
                        ELSE /\ reply' = Rep("process_fullname", user_id,
                                             res.registration_id, event_id,
                                             "send_failed", NoToken)
                             /\ UNCHANGED <<reminders, fsm>>
                   ELSE IF sendOk
                        THEN /\ reply' = Rep("process_fullname", user_id,
                                             res.registration_id, event_id,
                                             "waitlisted", NoToken)
                             /\ fsm' = [fsm EXCEPT ![user_id] = Idle]
                             /\ UNCHANGED reminders
                        ELSE /\ reply' = Rep("process_fullname", user_id,
                                             res.registration_id, event_id,
                                             "send_failed", NoToken)
                             /\ UNCHANGED <<reminders, fsm>>
                /\ UNCHANGED <<events, users, blacklist>>
    /\ UNCHANGED <<now, offerKb, cancelKb, adminKb, holds, bc, probe>>


(* confirm_cancel_registration: "cancel_confirm_<id>", reached from the    *)
(* "reminder_cancel_<id>" button of a delivered reminder (the intermediate *)
(* prompt handler changes no state)                                        *)
confirm_cancel_registration(registration_id) ==
    /\ registration_id \in cancelKb
    /\ registrations' = cancel_registration(registrations, registration_id, now)
    /\ reply' = Rep("confirm_cancel_registration",
                    registrations[registration_id].user_id, registration_id,
                    registrations[registration_id].event_id, "cancelled", NoToken)
    /\ UNCHANGED <<now, events, users, users_json, blacklist, reminders, fsm,
                   offerKb, cancelKb, adminKb, holds, bc, probe>>

take_place_from_waitlist_unchecked(registration_id) ==
    /\ registration_id \in offerKb
    /\ LET reg == registrations[registration_id]
           qr_token == generate_qr_token(ProvisionalKey(reg.user_id, reg.event_id),
                                         reg.event_id, reg.user_id)
           promoted == update_registration_status(registrations, registration_id,
                                                  "registered", NoTime, now)
       IN  /\ registrations' = update_registration(promoted, registration_id,
                                                   [qr_token |-> qr_token], now)
           /\ reply' = Rep("take_place_from_waitlist", reg.user_id,
                           registration_id, reg.event_id, "proof_sent", qr_token)
    /\ UNCHANGED <<now, events, users, users_json, blacklist, reminders, fsm,
                   offerKb, cancelKb, adminKb, holds, bc, probe>>

(* take_place_from_waitlist: the "take_place_<id>" button of a place offer *)
take_place_from_waitlist(registration_id) ==
    /\ registration_id \in offerKb
    /\ LET reg == registrations[registration_id] IN
       IF reg.status # "waitlist"
       THEN /\ reply' = Rep("take_place_from_waitlist", reg.user_id, registration_id,
                            reg.event_id, "place_taken", NoToken)
            /\ UNCHANGED registrations
       ELSE LET qr_token == generate_qr_token(
                                ProvisionalKey(reg.user_id, reg.event_id),
                                reg.event_id, reg.user_id)
                promoted == update_registration_status(registrations, registration_id,
                                                       "registered", NoTime, now)
            IN  /\ registrations' = update_registration(promoted, registration_id,
                                                        [qr_token |-> qr_token], now)
                /\ reply' = Rep("take_place_from_waitlist", reg.user_id,
                                registration_id, reg.event_id, "proof_sent", qr_token)
    /\ UNCHANGED <<now, events, users, users_json, blacklist, reminders, fsm,
                   offerKb, cancelKb, adminKb, holds, bc, probe>>

(* cmd_my_qr: /my_qr.  A user in waiting_fullname has the message taken by *)
(* process_fullname instead.                                               *)
cmd_my_qr(user_id) ==
    /\ UserKnown(users, user_id)
    /\ fsm[user_id].state # "waiting_fullname"
    /\ generate_and_send_qr("cmd_my_qr", user_id)
    /\ UNCHANGED <<now, events, users, users_json, blacklist, reminders, fsm,
                   offerKb, cancelKb, adminKb, holds, bc, probe>>

(* my_qr_code_handler: the "my_qr_code" button of the main menu *)
my_qr_code_handler(user_id) ==
    /\ UserKnown(users, user_id)
    /\ generate_and_send_qr("my_qr_code_handler", user_id)
    /\ UNCHANGED <<now, events, users, users_json, blacklist, reminders, fsm,
                   offerKb, cancelKb, adminKb, holds, bc, probe>>

-----------------------------------------------------------------------------
(* admin_handlers.py *)

(* cmd_post: /post <title> <capacity> <date>, any integer capacity *)
cmd_post(caller, capacity, start_at) ==
    /\ fsm[caller].state # "waiting_fullname"
    /\ IF ~is_admin(caller)
       THEN /\ reply' = Rep("cmd_post", caller, 0, NoEvent, "forbidden", NoToken)
            /\ UNCHANGED <<events, fsm>>
       ELSE LET event_id == get_next_event_id(events) IN
            /\ Cardinality(DOMAIN events) < MaxEvents
            /\ events' = [e \in DOMAIN events \cup {event_id} |->
                            IF e = event_id
                            THEN EventRecord(start_at, capacity)
                            ELSE events[e]]
            /\ fsm' = [fsm EXCEPT ![caller] = WaitingEventPost(event_id)]
            /\ reply' = Rep("cmd_post", caller, 0, event_id, "event_created", NoToken)
    /\ UNCHANGED <<now, users, users_json, registrations, blacklist, reminders,
                   offerKb, cancelKb, adminKb, holds, bc, probe>>

(* process_event_post: a message of an administrator awaiting the event    *)
(* post that reaches this handler ends the dialogue                        *)
process_event_post(caller) ==
    /\ fsm[caller].state = "waiting_for_event_post"
    /\ fsm' = [fsm EXCEPT ![caller] = Idle]
    /\ reply' = Rep("process_event_post", caller, 0, fsm[caller].event_id,
                    "event_saved", NoToken)
    /\ UNCHANGED <<now, storeVars, offerKb, cancelKb, adminKb, holds, bc, probe>>

(* get_upcoming_events / get_past_events / get_active_events               *)
(* (local_storage.py); every stored event has status active                *)
is_upcoming(event, t) == event.start_at > t
is_past_strict(event, t) == event.start_at < t - GRACE_PERIOD
is_past(event, t) == event.start_at <= t - GRACE_PERIOD
is_active(event, t) == event.start_at > t - GRACE_PERIOD

get_upcoming_events(evs, t) == {e \in DOMAIN evs : is_upcoming(evs[e], t)}
get_past_events(evs, t) == {e \in DOMAIN evs : is_past(evs[e], t)}
get_active_events(evs, t) == {e \in DOMAIN evs : is_active(evs[e], t)}

(* the administrator's event list, drilled down to one event's             *)
(* registrations (admin_events_reply, admin_event_management,              *)
(* admin_event_registrations): a check-in button per registered entry      *)
admin_event_registrations(caller, event_id) ==
    /\ is_admin(caller)
    /\ event_exists(events, event_id)
    /\ event_id \in get_upcoming_events(events, now) \cup get_past_events(events, now)
    /\ adminKb' = adminKb \cup
            {r \in DOMAIN registrations :
                /\ registrations[r].event_id = event_id
                /\ registrations[r].status = "registered"}
    /\ reply' = Rep("admin_event_registrations", caller, 0, event_id, "listed", NoToken)
    /\ UNCHANGED <<now, storeVars, fsm, offerKb, cancelKb, holds, bc, probe>>

(* admin_manual_checkin: the "admin_checkin_<id>" button, pressed by any   *)
(* member of the chat the list was delivered to; the handler does not look *)
(* at who pressed it.  The closing refresh reads the registration id as an *)
(* event id and lists nothing.                                             *)
admin_manual_checkin(caller, registration_id) ==
    /\ registration_id \in adminKb
    /\ LET reg == registrations[registration_id] IN
       IF reg.status = "attended"
       THEN /\ registrations' = update_registration_status(
                                    registrations, registration_id, "registered",
                                    NoTime, now)
            /\ reply' = Rep("admin_manual_checkin", caller, registration_id,
                            reg.event_id, "mark_removed", NoToken)
       ELSE /\ registrations' = update_registration_status(
                                    registrations, registration_id, "attended",
                                    now, now)
            /\ reply' = Rep("admin_manual_checkin", caller, registration_id,
                            reg.event_id, "marked", NoToken)
    /\ UNCHANGED <<now, events, users, users_json, blacklist, reminders, fsm,
                   offerKb, cancelKb, adminKb, holds, bc, probe>>

(* cmd_checkin: /checkin <registration_id> *)
cmd_checkin(caller, registration_id) ==
    /\ fsm[caller].state # "waiting_fullname"
    /\ IF ~is_admin(caller)
       THEN /\ reply' = Rep("cmd_checkin", caller, registration_id, NoEvent,
                            "forbidden", NoToken)
            /\ UNCHANGED registrations
       ELSE IF registration_id \notin DOMAIN registrations
       THEN /\ reply' = Rep("cmd_checkin", caller, registration_id, NoEvent,
                            "registration_not_found", NoToken)
            /\ UNCHANGED registrations
       ELSE LET reg == registrations[registration_id] IN
            IF reg.status = "attended"
            THEN /\ reply' = Rep("cmd_checkin", caller, registration_id, reg.event_id,
                                 "already_attended", NoToken)
                 /\ UNCHANGED registrations
            ELSE IF reg.status # "registered"
            THEN /\ reply' = Rep("cmd_checkin", caller, registration_id, reg.event_id,
                                 "wrong_status", NoToken)
                 /\ UNCHANGED registrations
            ELSE IF ~event_exists(events, reg.event_id)
            THEN /\ reply' = Rep("cmd_checkin", caller, registration_id, reg.event_id,
                                 "event_not_found", NoToken)
                 /\ UNCHANGED registrations
            ELSE IF ~is_within_checkin_window(events[reg.event_id], now)
            THEN /\ reply' = Rep("cmd_checkin", caller, registration_id, reg.event_id,
                                 "outside_window", NoToken)
                 /\ UNCHANGED registrations
            ELSE /\ registrations' = update_registration_status(
                                        registrations, registration_id, "attended",
                                        now, now)
                 /\ reply' = Rep("cmd_checkin", caller, registration_id, reg.event_id,
                                 "checked_in", NoToken)
    /\ UNCHANGED <<now, events, users, users_json, blacklist, reminders, fsm,
                   offerKb, cancelKb, adminKb, holds, bc, probe>>

(* cmd_blacklist: /blacklist add|remove <id>, /blacklist clear.  An        *)
(* administrator awaiting an event post has the command taken as the post. *)
cmd_blacklist(caller, action, user_id) ==
    /\ fsm[caller].state = "none"
    /\ IF ~is_admin(caller)
       THEN /\ reply' = Rep("cmd_blacklist", caller, 0, NoEvent, "forbidden", NoToken)
            /\ UNCHANGED blacklist
       ELSE /\ blacklist' =
                    IF action = "add" THEN blacklist \cup {user_id}
                    ELSE IF action = "remove" THEN blacklist \ {user_id}
                    ELSE {}
            /\ reply' = Rep("cmd_blacklist", caller, 0, NoEvent, action, NoToken)
    /\ UNCHANGED <<now, events, users, users_json, registrations, reminders, fsm,
                   offerKb, cancelKb, adminKb, holds, bc, probe>>


-----------------------------------------------------------------------------
(* scheduler.py *)

PendingReminders(rems, t) ==
    {k \in DOMAIN rems : rems[k].sent_at = NoTime /\ rems[k].scheduled_for <= t}

(* send_reminder sends (with the cancel button of the user's registration) *)
(* only for an existing event, a registration of the user found by         *)
(* get_user_registration with status registered, and an event not passed   *)
ReminderTarget(k) == get_user_registration(registrations, k[2], k[1])

ReminderIsSent(k) ==
    /\ event_exists(events, k[1])
    /\ HasUserRegistration(registrations, k[2], k[1])
    /\ registrations[ReminderTarget(k)].status = "registered"
    /\ ~event_passed(events[k[1]], now)

process_reminders_any_status ==
    LET pending == PendingReminders(reminders, now) IN
    /\ pending # {}
    /\ reminders' = [k \in DOMAIN reminders |->
                        IF k \in pending
                        THEN [reminders[k] EXCEPT !.sent_at = now]
                        ELSE reminders[k]]
    /\ cancelKb' = cancelKb \cup
                      {ReminderTarget(k) :
                         k \in {p \in pending :
                                  /\ event_exists(events, p[1])
                                  /\ HasUserRegistration(registrations, p[2], p[1])}}
    /\ reply' = Rep("process_reminders", 0, 0, NoEvent, "done", NoToken)
    /\ UNCHANGED <<now, events, users, users_json, registrations, blacklist, fsm,
                   offerKb, adminKb, holds, bc, probe>>

(* process_reminders: every pending reminder is attempted and marked sent *)
process_reminders ==
    LET pending == PendingReminders(reminders, now) IN
    /\ pending # {}
    /\ reminders' = [k \in DOMAIN reminders |->
                        IF k \in pending
                        THEN [reminders[k] EXCEPT !.sent_at = now]
                        ELSE reminders[k]]
    /\ cancelKb' = cancelKb \cup {ReminderTarget(k) : k \in {p \in pending : ReminderIsSent(p)}}
    /\ reply' = Rep("process_reminders", 0, 0, NoEvent, "done", NoToken)
    /\ UNCHANGED <<now, events, users, users_json, registrations, blacklist, fsm,
                   offerKb, adminKb, holds, bc, probe>>

(* offer_place_to_waitlist: the first waitlist registration of the event   *)
(* with waitlist_position 1 is sent the offer; a hold job is scheduled     *)
(* unless one with the same id hold_<id> is already pending                *)
OfferCandidates(regs, event_id) ==
    {r \in DOMAIN regs : /\ regs[r].event_id = event_id
                         /\ regs[r].status = "waitlist"
                         /\ regs[r].waitlist_position = 1}

OfferTargets(regs, eventIds) ==
    {CHOOSE r \in OfferCandidates(regs, e) :
        \A q \in OfferCandidates(regs, e) : r <= q
     : e \in {x \in eventIds : OfferCandidates(regs, x) # {}}}

HoldsAfterOffer(pending, regs, targets, t) ==
    pending \cup
    {[rid |-> r, eid |-> regs[r].event_id, run_at |-> t + PLACE_HOLD_TIME]
        : r \in {x \in targets : ~\E j \in pending : j.rid = x}}

(* process_waitlist: for every active event with a cancelled registration  *)
(* whose updated_at lies more than 60 minutes before the start             *)
SweepEvents ==
    {e \in get_active_events(events, now) :
        /\ \E r \in DOMAIN registrations :
              /\ registrations[r].event_id = e
              /\ registrations[r].status = "cancelled"
              /\ events[e].start_at - registrations[r].updated_at > WAITLIST_CANCEL_LEAD}

process_waitlist ==
    LET targets == OfferTargets(registrations, SweepEvents) IN
    /\ targets # {}
    /\ offerKb' = offerKb \cup targets
    /\ holds' = HoldsAfterOffer(holds, registrations, targets, now)
    /\ reply' = Rep("process_waitlist", 0, 0, NoEvent, "offered", NoToken)
    /\ UNCHANGED <<now, storeVars, fsm, cancelKb, adminKb, bc, probe>>

(* revoke_place_offer: the hold job, removed from the job store as it runs; *)
(* sendOk tells whether the send of the next offer succeeds: when it       *)
(* raises, offer_place_to_waitlist logs the error and schedules no hold    *)
revoke_place_offer(job, sendOk) ==
    /\ job \in holds
    /\ job.run_at <= now
    /\ LET rest == holds \ {job}
           expired == /\ job.rid \in DOMAIN registrations
                      /\ registrations[job.rid].status = "waitlist"
                      /\ event_exists(events, job.eid)
           targets == IF expired /\ sendOk
                      THEN OfferTargets(registrations, {job.eid}) ELSE {}
       IN  /\ offerKb' = offerKb \cup targets
           /\ holds' = HoldsAfterOffer(rest, registrations, targets, now)
           /\ reply' = Rep("revoke_place_offer", 0, job.rid, job.eid,
                           IF ~expired THEN "taken"
                           ELSE IF sendOk THEN "expired" ELSE "offer_failed",
                           NoToken)
    /\ UNCHANGED <<now, storeVars, fsm, cancelKb, adminKb, bc, probe>>

(* process_attendance_followup: of the events get_active_events returns,  *)
(* those with now >= start_at + 2 hours                                    *)
FollowupEvents(evs, t) ==
    {e \in get_active_events(evs, t) : t >= evs[e].start_at + GRACE_PERIOD}

(* process_no_shows: the registered registrations without a check-in time  *)
NoShowTargets(regs, eventIds) ==
    {r \in DOMAIN regs : /\ regs[r].event_id \in eventIds
                         /\ regs[r].status = "registered"
                         /\ regs[r].checkin_at = NoTime}

(* process_thanks: the attended registrations are sent the rating prompt   *)
ThanksTargets(regs, eventIds) ==
    {r \in DOMAIN regs : regs[r].event_id \in eventIds /\ regs[r].status = "attended"}

RECURSIVE mark_no_shows(_, _, _)
mark_no_shows(regs, targets, t) ==
    IF targets = {} THEN regs
    ELSE LET r == CHOOSE x \in targets : \A y \in targets : x <= y
         IN  mark_no_shows(update_registration_status(regs, r, "no_show", NoTime, t),
                           targets \ {r}, t)

(* the hourly job; delivered are the no-show notices the platform accepts, *)
(* only those registrations are flipped                                    *)
process_attendance_followup(delivered) ==
    LET eventIds == FollowupEvents(events, now) IN
    /\ delivered \subseteq NoShowTargets(registrations, eventIds)
    /\ registrations' = mark_no_shows(registrations, delivered, now)
    /\ reply' = Rep("process_attendance_followup", 0, 0, NoEvent,
                    IF ThanksTargets(registrations, eventIds) # {} THEN "thanked"
                    ELSE IF delivered # {} THEN "no_shows" ELSE "nothing_due", NoToken)
    /\ UNCHANGED <<now, events, users, users_json, blacklist, reminders, fsm,
                   offerKb, cancelKb, adminKb, holds, bc, probe>>

FollowupJob ==
    \E delivered \in SUBSET DOMAIN registrations : process_attendance_followup(delivered)

-----------------------------------------------------------------------------
(* Check-in by proof code *)

(* The signatures a chk_<registration_id>_<signature> payload is presented *)
(* with: the token the registration dialogue issues, and the token that    *)
(* verifies against a registration id (shown by /test_token)               *)
SignatureInputs ==
    {generate_qr_token(ProvisionalKey(u, e), e, u) : u \in UserIds, e \in 1..MaxEvents}
    \cup {generate_qr_token(RegistrationKey(r), e, u) :
            r \in 1..MaxRegs, u \in UserIds, e \in 1..MaxEvents}

(* checkin_handlers.cmd_start_deeplink: /start chk_<registration_id>_<signature>, *)
(* as the check-in router runs it                                                 *)
cmd_start_deeplink_any_caller(caller, registration_id, signature) ==
    /\ fsm' = [fsm EXCEPT ![caller] = Idle]
    /\ IF registration_id \notin DOMAIN registrations
       THEN /\ reply' = Rep("cmd_start_deeplink", caller, registration_id, NoEvent,
                            "registration_not_found", signature)
            /\ UNCHANGED registrations
       ELSE LET reg == registrations[registration_id] IN
            IF ~verify_qr_token(signature, RegistrationKey(registration_id),
                                reg.event_id, reg.user_id)
            THEN /\ reply' = Rep("cmd_start_deeplink", caller, registration_id,
                                 reg.event_id, "invalid_link", signature)
                 /\ UNCHANGED registrations
            ELSE IF is_blacklisted(blacklist, reg.user_id)
            THEN /\ reply' = Rep("cmd_start_deeplink", caller, registration_id,
                                 reg.event_id, "unavailable", signature)
                 /\ UNCHANGED registrations
            ELSE IF reg.status \in {"cancelled", "attended", "waitlist"}
            THEN /\ reply' = Rep("cmd_start_deeplink", caller, registration_id,
                                 reg.event_id, reg.status, signature)
                 /\ UNCHANGED registrations
            ELSE IF ~event_exists(events, reg.event_id)
            THEN /\ reply' = Rep("cmd_start_deeplink", caller, registration_id,
                                 reg.event_id, "event_not_found", signature)
                 /\ UNCHANGED registrations
            ELSE IF ~is_within_checkin_window(events[reg.event_id], now)
            THEN /\ reply' = Rep("cmd_start_deeplink", caller, registration_id,
                                 reg.event_id, "outside_window", signature)
                 /\ UNCHANGED registrations
            ELSE /\ registrations' = update_registration_status(
                                        registrations, registration_id, "attended",
                                        now, now)
                 /\ reply' = Rep("cmd_start_deeplink", caller, registration_id,
                                 reg.event_id, "checked_in", signature)
    /\ UNCHANGED <<now, events, users, users_json, blacklist, reminders,
                   offerKb, cancelKb, adminKb, holds, bc, probe>>

cmd_start_deeplink(caller, registration_id, signature) ==
    /\ fsm' = [fsm EXCEPT ![caller] = Idle]
    /\ IF registration_id \notin DOMAIN registrations
       THEN /\ reply' = Rep("cmd_start_deeplink", caller, registration_id, NoEvent,
                            "registration_not_found", signature)
            /\ UNCHANGED registrations
       ELSE LET reg == registrations[registration_id] IN
            IF ~verify_qr_token(signature, RegistrationKey(registration_id),
                                reg.event_id, reg.user_id)
            THEN /\ reply' = Rep("cmd_start_deeplink", caller, registration_id,
                                 reg.event_id, "invalid_link", signature)
                 /\ UNCHANGED registrations
            ELSE IF is_blacklisted(blacklist, reg.user_id)
            THEN /\ reply' = Rep("cmd_start_deeplink", caller, registration_id,
                                 reg.event_id, "unavailable", signature)
                 /\ UNCHANGED registrations
            ELSE IF reg.user_id # caller
            THEN /\ reply' = Rep("cmd_start_deeplink", caller, registration_id,
                                 reg.event_id, "not_yours", signature)
                 /\ UNCHANGED registrations
            ELSE IF reg.status \in {"cancelled", "attended", "waitlist"}
            THEN /\ reply' = Rep("cmd_start_deeplink", caller, registration_id,
                                 reg.event_id, reg.status, signature)
                 /\ UNCHANGED registrations
            ELSE IF ~event_exists(events, reg.event_id)
            THEN /\ reply' = Rep("cmd_start_deeplink", caller, registration_id,
                                 reg.event_id, "event_not_found", signature)
                 /\ UNCHANGED registrations
            ELSE IF ~is_within_checkin_window(events[reg.event_id], now)
            THEN /\ reply' = Rep("cmd_start_deeplink", caller, registration_id,
                                 reg.event_id, "outside_window", signature)
                 /\ UNCHANGED registrations
            ELSE /\ registrations' = update_registration_status(
                                        registrations, registration_id, "attended",
                                        now, now)
                 /\ reply' = Rep("cmd_start_deeplink", caller, registration_id,
                                 reg.event_id, "checked_in", signature)
    /\ UNCHANGED <<now, events, users, users_json, blacklist, reminders,
                   offerKb, cancelKb, adminKb, holds, bc, probe>>

(* admin_handlers.process_qr_deeplink on a chk_<registration_id>_<signature> *)
(* payload, called by handle_qr_photo and handle_qr_deeplink for an          *)
(* administrator only; an administrator in a dialogue has the message taken  *)
(* by the dialogue's handler.  The presented signature replaces the stored   *)
(* token as soon as it verifies, before the status is looked at.             *)
process_qr_deeplink_stored_only(admin_user_id, registration_id, signature) ==
    /\ is_admin(admin_user_id)
    /\ fsm[admin_user_id].state = "none"
    /\ IF registration_id \notin DOMAIN registrations
       THEN /\ reply' = Rep("process_qr_deeplink", admin_user_id, registration_id,
                            NoEvent, "registration_not_found", signature)
            /\ UNCHANGED registrations
       ELSE LET reg == registrations[registration_id] IN
            IF signature # reg.qr_token
            THEN /\ reply' = Rep("process_qr_deeplink", admin_user_id, registration_id,
                                 reg.event_id, "invalid_code", signature)
                 /\ UNCHANGED registrations
            ELSE IF reg.status \in {"cancelled", "attended", "waitlist"}
            THEN /\ reply' = Rep("process_qr_deeplink", admin_user_id, registration_id,
                                 reg.event_id, reg.status, signature)
                 /\ UNCHANGED registrations
            ELSE IF ~event_exists(events, reg.event_id)
            THEN /\ reply' = Rep("process_qr_deeplink", admin_user_id, registration_id,
                                 reg.event_id, "event_not_found", signature)
                 /\ UNCHANGED registrations
            ELSE IF ~is_within_checkin_window(events[reg.event_id], now)
            THEN /\ reply' = Rep("process_qr_deeplink", admin_user_id, registration_id,
                                 reg.event_id, "outside_window", signature)
                 /\ UNCHANGED registrations
            ELSE /\ registrations' = update_registration_status(
                                        registrations, registration_id, "attended",
                                        now, now)
                 /\ reply' = Rep("process_qr_deeplink", admin_user_id, registration_id,
                                 reg.event_id, "checked_in", signature)
    /\ UNCHANGED <<now, events, users, users_json, blacklist, reminders, fsm,
                   offerKb, cancelKb, adminKb, holds, bc, probe>>

process_qr_deeplink(admin_user_id, registration_id, signature) ==
    /\ is_admin(admin_user_id)
    /\ fsm[admin_user_id].state = "none"
    /\ IF registration_id \notin DOMAIN registrations
       THEN /\ reply' = Rep("process_qr_deeplink", admin_user_id, registration_id,
                            NoEvent, "registration_not_found", signature)
            /\ UNCHANGED registrations
       ELSE LET reg == registrations[registration_id]
                stored == signature = reg.qr_token
                token_valid == stored \/ verify_qr_token(signature,
                                            RegistrationKey(registration_id),
                                            reg.event_id, reg.user_id)
                retokened == IF stored THEN registrations
                             ELSE update_registration(registrations, registration_id,
                                                      [qr_token |-> signature], now)
            IN
            IF ~token_valid
            THEN /\ reply' = Rep("process_qr_deeplink", admin_user_id, registration_id,
                                 reg.event_id, "invalid_code", signature)
                 /\ UNCHANGED registrations
            ELSE IF reg.status \in {"cancelled", "attended", "waitlist"}
            THEN /\ reply' = Rep("process_qr_deeplink", admin_user_id, registration_id,
                                 reg.event_id, reg.status, signature)
                 /\ registrations' = retokened
            ELSE IF ~event_exists(events, reg.event_id)
            THEN /\ reply' = Rep("process_qr_deeplink", admin_user_id, registration_id,
                                 reg.event_id, "event_not_found", signature)
                 /\ registrations' = retokened
            ELSE IF ~is_within_checkin_window(events[reg.event_id], now)
            THEN /\ reply' = Rep("process_qr_deeplink", admin_user_id, registration_id,
                                 reg.event_id, "outside_window", signature)
                 /\ registrations' = retokened
            ELSE /\ registrations' = update_registration_status(
                                        retokened, registration_id, "attended",
                                        now, now)
                 /\ reply' = Rep("process_qr_deeplink", admin_user_id, registration_id,
                                 reg.event_id, "checked_in", signature)
    /\ UNCHANGED <<now, events, users, users_json, blacklist, reminders, fsm,
                   offerKb, cancelKb, adminKb, holds, bc, probe>>

-----------------------------------------------------------------------------
(* The bot: updates from users and administrators, scheduler jobs, time *)

RegistrationUpdates ==
    \/ \E u \in UserIds, e \in 0..MaxEvents : cmd_start(u, e)
    \/ \E u \in UserIds, e \in 1..MaxEvents : start_registration(u, e)
    \/ \E u \in UserIds, n \in NameInputs, ok \in BOOLEAN : process_fullname(u, n, ok)

ProofUpdates ==
    \/ \E u \in UserIds : cmd_my_qr(u)
    \/ \E u \in UserIds : my_qr_code_handler(u)

EventUpdates ==
    \/ \E c \in CommandInputs, cap \in CapacityInputs, st \in StartInputs :
            cmd_post(c, cap, st)
    \/ \E c \in AdminInputs : process_event_post(c)

CheckinUpdates ==
    \/ \E c \in AdminInputs, e \in 1..MaxEvents : admin_event_registrations(c, e)
    \/ \E c \in CommandInputs, r \in DOMAIN registrations : admin_manual_checkin(c, r)
    \/ \E c \in CommandInputs, r \in 1..MaxRegs : cmd_checkin(c, r)

BlacklistUpdates ==
    \E c \in CommandInputs, a \in {"add", "remove", "clear"}, u \in BlacklistInputs :
        cmd_blacklist(c, a, u)

WaitlistUpdates ==
    \/ \E r \in DOMAIN registrations : confirm_cancel_registration(r)
    \/ \E r \in DOMAIN registrations : take_place_from_waitlist(r)
    \/ process_reminders
    \/ process_waitlist
    \/ \E j \in holds : revoke_place_offer(j, TRUE)

(* The whole bot *)
Next ==
    \/ Tick(LateInstants)
    \/ RegistrationUpdates
    \/ ProofUpdates
    \/ EventUpdates
    \/ CheckinUpdates
    \/ BlacklistUpdates
    \/ WaitlistUpdates
    \/ FollowupJob

Spec == Init /\ [][Next]_vars

(* Registration, proof retrieval, check-in and the block-list, with the    *)
(* scheduler's jobs not running                                            *)
NextRegistration ==
    \/ Tick(Instants)
    \/ RegistrationUpdates
    \/ ProofUpdates
    \/ EventUpdates
    \/ CheckinUpdates
    \/ BlacklistUpdates

SpecRegistration == Init /\ [][NextRegistration]_vars

(* The waitlist: registration, reminders and their cancel button, the     *)
(* waitlist sweep, place offers and their hold jobs, and check-in, with    *)
(* the clock visiting the D1 reminder time and the opening of the check-in *)
(* window                                                                  *)
WaitlistInstants == {0, EventStart - REMINDER_DAY, EventStart - 60}
FullnameInputs == {n \in NameInputs : n.len = 11}

NextWaitlist ==
    \/ Tick(WaitlistInstants)
    \/ \E u \in UserIds, e \in 1..MaxEvents : cmd_start(u, e)
    \/ \E u \in UserIds, n \in FullnameInputs : process_fullname(u, n, TRUE)
    \/ \E c \in AdminInputs, cap \in CapacityInputs, st \in StartInputs :
            cmd_post(c, cap, st)
    \/ \E c \in AdminInputs, e \in 1..MaxEvents : admin_event_registrations(c, e)
    \/ \E c \in AdminInputs, r \in DOMAIN registrations : admin_manual_checkin(c, r)
    \/ \E c \in AdminInputs, r \in 1..MaxRegs : cmd_checkin(c, r)
    \/ WaitlistUpdates

SpecWaitlist == Init /\ [][NextWaitlist]_vars

(* The attendance follow-up after registrations and check-ins, the clock  *)
(* reaching two hours after the start; the hourly job and the clock keep   *)
(* running                                                                 *)
FollowupInstants ==
    {0, EventStart + GRACE_PERIOD - 1, EventStart + GRACE_PERIOD,
     EventStart + GRACE_PERIOD + 60}

NextFollowup ==
    \/ Tick(FollowupInstants)
    \/ \E u \in UserIds, e \in 1..MaxEvents : cmd_start(u, e)
    \/ \E u \in UserIds, n \in FullnameInputs : process_fullname(u, n, TRUE)
    \/ \E c \in AdminInputs, cap \in CapacityInputs, st \in StartInputs :
            cmd_post(c, cap, st)
    \/ \E c \in AdminInputs, e \in 1..MaxEvents : admin_event_registrations(c, e)
    \/ \E c \in AdminInputs, r \in DOMAIN registrations : admin_manual_checkin(c, r)
    \/ FollowupJob

SpecFollowup ==
    /\ Init
    /\ [][NextFollowup]_vars
    /\ WF_vars(Tick(FollowupInstants))
    /\ WF_vars(FollowupJob)

(* Check-in by proof code, by /checkin and by the check-in router's        *)
(* handler, over registrations made, waitlisted, cancelled from a reminder *)
(* and block-listed                                                        *)
NextCheckin ==
    \/ Tick(Instants)
    \/ \E u \in UserIds, e \in 1..MaxEvents : cmd_start(u, e)
    \/ \E u \in UserIds, n \in FullnameInputs : process_fullname(u, n, TRUE)
    \/ \E c \in AdminInputs, cap \in CapacityInputs, st \in StartInputs :
            cmd_post(c, cap, st)
    \/ \E c \in AdminInputs : process_event_post(c)
    \/ \E c \in AdminInputs, a \in {"add", "remove"}, u \in BlacklistInputs :
            cmd_blacklist(c, a, u)
    \/ process_reminders
    \/ \E r \in DOMAIN registrations : confirm_cancel_registration(r)
    \/ \E c \in AdminInputs, r \in 1..MaxRegs : cmd_checkin(c, r)
    \/ \E c \in UserIds, r \in 1..MaxRegs, signature \in SignatureInputs :
            cmd_start_deeplink(c, r, signature)
    \/ \E c \in AdminInputs, r \in 1..MaxRegs, signature \in SignatureInputs :
            process_qr_deeplink(c, r, signature)

SpecCheckin == Init /\ [][NextCheckin]_vars

(* The queue of one event: three callers went through the registration     *)
(* dialogue at time 0 for an event of capacity 1, so that the first is     *)
(* registered and the other two wait at positions 1 and 2; the first was   *)
(* sent the D1 reminder when it fell due and cancelled with its button.    *)
(* From there the waitlist sweep, the offers, their hold jobs and the      *)
(* answers to the offers run, the clock visiting the expiry of up to       *)
(* MaxHoldRounds holds in a row.                                           *)
MaxHoldRounds == 3
QueueEvent == 1
QueueOpens == EventStart - REMINDER_DAY
QueueInstants == {QueueOpens + k * PLACE_HOLD_TIME : k \in 0..MaxHoldRounds}
QueueInputs ==
    {us \in [1..3 -> UserIds \cup AdminInputs] :
        \A i, j \in 1..3 : i # j => us[i] # us[j]}

RECURSIVE QueueUsers(_)
QueueUsers(user_ids) ==
    IF user_ids = <<>> THEN <<>>
    ELSE add_user(QueueUsers(SubSeq(user_ids, 1, Len(user_ids) - 1)),
                  user_ids[Len(user_ids)])

RECURSIVE QueueRegistrations(_, _, _)
QueueRegistrations(user_ids, evs, t) ==
    IF user_ids = <<>> THEN EmptyMap
    ELSE LET user_id == user_ids[Len(user_ids)] IN
         create_registration(
            QueueRegistrations(SubSeq(user_ids, 1, Len(user_ids) - 1), evs, t),
            evs, user_id, QueueEvent,
            generate_qr_token(ProvisionalKey(user_id, QueueEvent), QueueEvent, user_id),
            t)

QueueState(inputs) ==
    /\ now = QueueOpens
    /\ events = [e \in {QueueEvent} |-> EventRecord(EventStart, 1)]
    /\ \E us \in inputs :
          /\ users = QueueUsers(us)
          /\ users_json = SavedUsers(QueueUsers(us))
          /\ registrations = cancel_registration(
                                QueueRegistrations(us, events, 0), 1, QueueOpens)
          /\ reminders = [k \in DOMAIN schedule_reminders(EmptyMap, <<"D1", "H6", "H1">>,
                                                          QueueEvent, us[1], events, 0) |->
                            LET r == schedule_reminders(EmptyMap, <<"D1", "H6", "H1">>,
                                                        QueueEvent, us[1], events, 0)[k]
                            IN  IF r.scheduled_for <= QueueOpens
                                THEN [r EXCEPT !.sent_at = QueueOpens] ELSE r]
          /\ reply = Rep("confirm_cancel_registration", us[1], 1, QueueEvent,
                         "cancelled", NoToken)
    /\ blacklist = {}
    /\ fsm = [c \in Callers |-> Idle]
    /\ offerKb = {}
    /\ cancelKb = {1}
    /\ adminKb = {}
    /\ holds = {}
    /\ bc = IdleBroadcast

InitQueue == QueueState(QueueInputs) /\ probe = NoProbe

NextQueue ==
    \/ Tick(QueueInstants)
    \/ process_waitlist
    \/ \E j \in holds, sendOk \in BOOLEAN : revoke_place_offer(j, sendOk)
    \/ \E r \in DOMAIN registrations : take_place_from_waitlist(r)
    \/ \E r \in DOMAIN registrations : confirm_cancel_registration(r)

SpecQueue == InitQueue /\ [][NextQueue]_vars

(* Arrivals at a queue: the queue of one event as above, or with a single  *)
(* waiting registration, where callers keep going through the              *)
(* registration dialogue until MaxArrivals registrations exist             *)
ArrivalInputs ==
    QueueInputs \cup
    {us \in [1..2 -> UserIds \cup AdminInputs] : us[1] # us[2]}

InitArrivals == QueueState(ArrivalInputs) /\ probe = Arrivals

NextArrivals ==
    \/ NextQueue
    \/ \E u \in UserIds \cup AdminInputs : cmd_start(u, QueueEvent)
    \/ \E u \in UserIds \cup AdminInputs, n \in FullnameInputs :
            process_fullname(u, n, TRUE)

SpecArrivals == InitArrivals /\ [][NextArrivals]_vars

-----------------------------------------------------------------------------
(* broadcast.py: broadcast_event and broadcast_message.  The fan-out       *)
(* suspends after every send, so other updates interleave with its turns.  *)

Running(kind, file) ==
    [pc |-> "running", kind |-> kind, users_to_process |-> get_all_users(file),
     pos |-> 0, attempts |-> <<>>, skipped |-> <<>>]

(* broadcast_event up to the fan-out: an unknown event (after the retries) *)
(* or an event that has passed ends the broadcast before any send          *)
broadcast_event(event_id) ==
    /\ bc.pc # "running"
    /\ bc' = IF ~event_exists(events, event_id)
                \/ event_passed(events[event_id], now)
             THEN [IdleBroadcast EXCEPT !.pc = "aborted", !.kind = "event"]
             ELSE Running("event", users_json)
    /\ UNCHANGED <<now, storeVars, fsm, offerKb, cancelKb, adminKb, holds, reply, probe>>

broadcast_message ==
    /\ bc.pc # "running"
    /\ bc' = Running("message", users_json)
    /\ UNCHANGED <<now, storeVars, fsm, offerKb, cancelKb, adminKb, holds, reply, probe>>

broadcast_turn_unfiltered ==
    /\ bc.pc = "running"
    /\ IF bc.pos = Len(bc.users_to_process)
       THEN bc' = [bc EXCEPT !.pc = "done"]
       ELSE bc' = [bc EXCEPT !.pos = @ + 1,
                             !.attempts = Append(@, bc.users_to_process[bc.pos + 1].user_id)]
    /\ UNCHANGED <<now, storeVars, fsm, offerKb, cancelKb, adminKb, holds, reply, probe>>

(* one turn of the loop over users_to_process: the block-list check, then  *)
(* the send (an attempt, whether the platform accepts it or not)           *)
broadcast_turn ==
    /\ bc.pc = "running"
    /\ IF bc.pos = Len(bc.users_to_process)
       THEN bc' = [bc EXCEPT !.pc = "done"]
       ELSE LET user_id == bc.users_to_process[bc.pos + 1].user_id IN
            IF is_blacklisted(blacklist, user_id)
            THEN bc' = [bc EXCEPT !.pos = @ + 1, !.skipped = Append(@, user_id)]
            ELSE bc' = [bc EXCEPT !.pos = @ + 1, !.attempts = Append(@, user_id)]
    /\ UNCHANGED <<now, storeVars, fsm, offerKb, cancelKb, adminKb, holds, reply, probe>>

BroadcastUpdates ==
    \/ \E e \in 1..MaxEvents : broadcast_event(e)
    \/ broadcast_message
    \/ broadcast_turn

(* Broadcasts among users joining, events being posted, the block-list     *)
(* changing and time passing                                               *)
NextBroadcast ==
    \/ Tick(LateInstants)
    \/ \E u \in UserIds : cmd_start(u, NoEvent)
    \/ \E c \in AdminInputs, st \in StartInputs : cmd_post(c, 1, st)
    \/ \E c \in AdminInputs : process_event_post(c)
    \/ \E c \in AdminInputs, a \in {"add", "remove", "clear"}, u \in UserIds :
            cmd_blacklist(c, a, u)
    \/ BroadcastUpdates

SpecBroadcast == Init /\ [][NextBroadcast]_vars

-----------------------------------------------------------------------------
(* The pure functions, applied to inputs drawn by the initial state *)

Quiet ==
    /\ users = <<>>
    /\ users_json = EmptyRegistry
    /\ blacklist = {}
    /\ reminders = EmptyMap
    /\ fsm = [c \in Callers |-> Idle]
    /\ offerKb = {}
    /\ cancelKb = {}
    /\ adminKb = {}
    /\ holds = {}
    /\ reply = NoReply
    /\ bc = IdleBroadcast

botVars == <<users, users_json, blacklist, reminders, fsm, offerKb, cancelKb, adminKb,
             holds, reply, bc>>

(* sheets.create_registration called again and again on one event *)
MaxCreates == 4
MaxCreateCapacity == 2
UnknownEvent == MaxEvents + 1

InitCreate ==
    /\ Quiet
    /\ now = 0
    /\ \E capacity \in 0..MaxCreateCapacity :
          events = [e \in {1} |-> EventRecord(EventStart, capacity)]
    /\ registrations = EmptyMap
    /\ probe = [kind |-> "create", done |-> FALSE, event_id |-> NoEvent,
                result |-> AbsentResult, stored |-> FALSE]

create_registration_call(user_id, event_id) ==
    /\ probe.kind = "create"
    /\ Cardinality(DOMAIN registrations) < MaxCreates
    /\ registrations' = create_registration(
                            registrations, events, user_id, event_id,
                            generate_qr_token(ProvisionalKey(user_id, event_id),
                                              event_id, user_id), now)
    /\ probe' = [kind |-> "create", done |-> TRUE, event_id |-> event_id,
                 result |-> create_registration_result(registrations, events, event_id),
                 stored |-> registrations' # registrations]
    /\ UNCHANGED <<now, events, botVars>>

NextCreate ==
    \E u \in UserIds, e \in {1, UnknownEvent} : create_registration_call(u, e)

SpecCreate == InitCreate /\ [][NextCreate]_vars

(* is_within_checkin_window on events with and without stored offsets *)
WindowStarts == {EventStart, 2 * EventStart}
WindowOffsets == {[checkin_window_start_minutes |-> -60, checkin_window_end_minutes |-> 120],
                  [checkin_window_start_minutes |-> -30, checkin_window_end_minutes |-> 90],
                  [checkin_window_start_minutes |-> 0, checkin_window_end_minutes |-> 0]}
WindowEvents ==
    {[start_at |-> st] : st \in WindowStarts}
    \cup {[start_at |-> st,
           checkin_window_start_minutes |-> o.checkin_window_start_minutes,
           checkin_window_end_minutes |-> o.checkin_window_end_minutes]
            : st \in WindowStarts, o \in WindowOffsets}
    \cup {[start_at |-> st,
           checkin_window_start_minutes |-> o.checkin_window_start_minutes]
            : st \in WindowStarts, o \in WindowOffsets}
    \cup {[start_at |-> st,
           checkin_window_end_minutes |-> o.checkin_window_end_minutes]
            : st \in WindowStarts, o \in WindowOffsets}
WindowDeltas == {-61, -60, -59, -31, -30, -29, -1, 0, 1, 89, 90, 91, 119, 120, 121}

InitWindow ==
    /\ Quiet
    /\ events = EmptyMap
    /\ registrations = EmptyMap
    /\ \E ev \in WindowEvents, d \in WindowDeltas :
          /\ now = ev.start_at + d
          /\ probe = [kind |-> "window", done |-> FALSE, event |-> ev, result |-> FALSE]

check_window ==
    /\ probe.kind = "window"
    /\ ~probe.done
    /\ probe' = [probe EXCEPT !.done = TRUE,
                              !.result = is_within_checkin_window(probe.event, now)]
    /\ UNCHANGED <<now, events, registrations, botVars>>

SpecWindow == InitWindow /\ [][check_window]_vars

(* get_upcoming_events and get_past_events on a store of two events *)
ClassifyNow == 500
ClassifyDeltas == {-180, -121, -120, -119, -60, -1, 0, 1, 60}

InitClassify ==
    /\ Quiet
    /\ now = ClassifyNow
    /\ \E d1 \in ClassifyDeltas, d2 \in ClassifyDeltas :
          events = [e \in {1, 2} |->
                        EventRecord(ClassifyNow + (IF e = 1 THEN d1 ELSE d2), 1)]
    /\ registrations = EmptyMap
    /\ probe = [kind |-> "classify", done |-> FALSE, upcoming |-> {}, past |-> {}]

classify_events ==
    /\ probe.kind = "classify"
    /\ ~probe.done
    /\ probe' = [probe EXCEPT !.done = TRUE,
                              !.upcoming = get_upcoming_events(events, now),
                              !.past = get_past_events(events, now)]
    /\ UNCHANGED <<now, events, registrations, botVars>>

SpecClassify == InitClassify /\ [][classify_events]_vars

(* get_next_event_id and get_next_registration_id on the keys of a         *)
(* collection as the files hold them: texts, a text being the sequence of  *)
(* its characters, the digits 0..9 and a letter                            *)
Letter == 10

isdigit(s) == Len(s) > 0 /\ \A i \in 1..Len(s) : s[i] \in 0..9

(* int(text) of a text of digits, and str(number) *)
RECURSIVE int(_)
int(s) == IF s = <<>> THEN 0 ELSE int(SubSeq(s, 1, Len(s) - 1)) * 10 + s[Len(s)]

RECURSIVE str(_)
str(n) == IF n < 10 THEN <<n>> ELSE str(n \div 10) \o <<n % 10>>

(* f"{n:03d}" *)
format_03d(n) ==
    LET d == str(n) IN
    IF Len(d) >= 3 THEN d ELSE [i \in 1..(3 - Len(d)) |-> 0] \o d

get_next_event_id_by_count(keys) ==
    IF keys = {} THEN <<0, 0, 1>> ELSE format_03d(Cardinality(keys) + 1)

get_next_event_id_keys(keys) ==
    IF keys = {} THEN <<0, 0, 1>>
    ELSE format_03d(Max({int(k) : k \in {x \in keys : isdigit(x)}} \cup {0}) + 1)

(* int(reg_id) raises ValueError on a text that is no number *)
get_next_registration_id_keys(keys) ==
    IF keys = {} THEN 1
    ELSE Max({int(k) : k \in {x \in keys : isdigit(x)}} \cup {0}) + 1

KeyInputs == { <<0, 0, 1>>, <<0, 0, 3>>, <<3>>, <<1, 2>>, <<Letter>>, <<0, Letter, 7>> }

InitNextId ==
    /\ Quiet
    /\ now = 0
    /\ events = EmptyMap
    /\ registrations = EmptyMap
    /\ \E keys \in SUBSET KeyInputs :
          probe = [kind |-> "next_id", keys |-> keys,
                   event_done |-> FALSE, event_id |-> <<>>,
                   registration_done |-> FALSE, registration_id |-> 0]

next_event_id_call ==
    /\ probe.kind = "next_id"
    /\ ~probe.event_done
    /\ probe' = [probe EXCEPT !.event_done = TRUE,
                              !.event_id = get_next_event_id_keys(probe.keys)]
    /\ UNCHANGED <<now, events, registrations, botVars>>

next_registration_id_call ==
    /\ probe.kind = "next_id"
    /\ ~probe.registration_done
    /\ probe' = [probe EXCEPT !.registration_done = TRUE,
                              !.registration_id = get_next_registration_id_keys(probe.keys)]
    /\ UNCHANGED <<now, events, registrations, botVars>>

NextNextId == next_event_id_call \/ next_registration_id_call

SpecNextId == InitNextId /\ [][NextNextId]_vars

(* sheets.py: sync_all_data mirrors five collections into the tabs of the  *)
(* spreadsheet.  A tab is the sequence of its rows; the header row and the *)
(* data rows of each collection in the order the store holds them          *)
SheetTitles == {"events", "users", "registrations", "posts", "reminders", "blacklist"}
SyncedTitles == {"events", "users", "registrations", "blacklist", "reminders"}

HeaderRow == <<"headers">>

RECURSIVE RowsInOrder(_, _, _)
RowsInOrder(keys, rank, row) ==
    IF keys = {} THEN <<>>
    ELSE LET k == CHOOSE x \in keys : \A y \in keys : rank[x] <= rank[y]
         IN  <<row[k]>> \o RowsInOrder(keys \ {k}, rank, row)

TypeRank(type) == IF type = "D1" THEN 1 ELSE IF type = "H6" THEN 2 ELSE 3

(* rows_to_update of each collection: item_data.get(header, '') per header *)
rows_to_update(title) ==
    IF title = "events"
    THEN RowsInOrder(DOMAIN events, [e \in DOMAIN events |-> e],
                     [e \in DOMAIN events |->
                        <<"row", e, events[e].start_at, events[e].capacity>>])
    ELSE IF title = "users"
    THEN [i \in 1..Len(users) |-> <<"row", users[i].user_id, users[i].is_blacklisted>>]
    ELSE IF title = "registrations"
    THEN RowsInOrder(DOMAIN registrations, [r \in DOMAIN registrations |-> r],
                     [r \in DOMAIN registrations |->
                        <<"row", r, registrations[r].event_id, registrations[r].user_id,
                          registrations[r].status, registrations[r].waitlist_position,
                          registrations[r].qr_token, registrations[r].checkin_at,
                          registrations[r].updated_at>>])
    ELSE IF title = "blacklist"
    THEN RowsInOrder(blacklist, [u \in blacklist |-> u],
                     [u \in blacklist |-> <<"row", u>>])
    ELSE RowsInOrder(DOMAIN reminders,
                     [k \in DOMAIN reminders |-> 100 * k[1] + 10 * k[2] + TypeRank(k[3])],
                     [k \in DOMAIN reminders |->
                        <<"row", k[1], k[2], reminders[k].scheduled_for, k[3],
                          reminders[k].sent_at>>])

sync_to_sheet_appending(sheet, rows) ==
    IF rows # <<>> THEN sheet \o <<HeaderRow>> \o rows ELSE sheet

(* _sync_to_sheet: clear, the headers, the rows; a collection without rows *)
(* leaves the tab as it is                                                 *)
sync_to_sheet(sheet, rows) ==
    IF rows # <<>> THEN <<HeaderRow>> \o rows ELSE sheet

(* sync_all_data over the tabs init_sheets found *)
sync_all_data_result(sheets) ==
    [title \in DOMAIN sheets |->
        IF title \in SyncedTitles
        THEN sync_to_sheet(sheets[title], rows_to_update(title))
        ELSE sheets[title]]

MaxSyncs == 3
StaleRow == <<"row", 9>>

SyncRegistration(r, status, position) ==
    [event_id |-> 1, user_id |-> r, status |-> status, waitlist_position |-> position,
     qr_token |-> generate_qr_token(ProvisionalKey(r, 1), 1, r),
     checkin_at |-> NoTime, updated_at |-> 0]

InitSync ==
    /\ now = 0
    /\ users_json = EmptyRegistry
    /\ fsm = [c \in Callers |-> Idle]
    /\ offerKb = {}
    /\ cancelKb = {}
    /\ adminKb = {}
    /\ holds = {}
    /\ reply = NoReply
    /\ bc = IdleBroadcast
    /\ \E n \in 0..2 :
          /\ events = IF n = 0 THEN EmptyMap
                      ELSE [e \in {1} |-> EventRecord(EventStart, 1)]
          /\ registrations =
                [r \in 1..n |-> IF r = 1 THEN SyncRegistration(r, "registered", NoPosition)
                                ELSE SyncRegistration(r, "waitlist", 1)]
          /\ users = [i \in 1..n |-> [user_id |-> i, is_blacklisted |-> FALSE]]
          /\ reminders \in
                {EmptyMap} \cup
                {[k \in {<<1, 1, "H1">>, <<1, 1, "D1">>} |->
                    [scheduled_for |-> EventStart - ReminderOffset(k[3]),
                     sent_at |-> NoTime]] : x \in 1..n}
    /\ blacklist \in SUBSET {1}
    /\ \E titles \in {SheetTitles, SheetTitles \ {"reminders"}},
          before \in {<<>>, <<HeaderRow, StaleRow>>} :
          probe = [kind |-> "sync", passes |-> 0,
                   before |-> [title \in titles |-> before],
                   sheets |-> [title \in titles |-> before],
                   after_first |-> [title \in titles |-> before]]

sync_all_data ==
    /\ probe.kind = "sync"
    /\ probe.passes < MaxSyncs
    /\ probe' = [probe EXCEPT
                    !.passes = @ + 1,
                    !.sheets = sync_all_data_result(probe.sheets),
                    !.after_first = IF probe.passes = 0
                                    THEN sync_all_data_result(probe.sheets) ELSE @]
    /\ UNCHANGED <<now, events, registrations, botVars>>

SpecSync == InitSync /\ [][sync_all_data]_vars

(* utils.py: generate_qr_token and verify_qr_token on components as the   *)
(* callers pass them, an integer or a text.  The signed message is         *)
(* f"{str(r).strip()}_{str(e).strip()}_{str(u).strip()}", a text over the  *)
(* digits, the letter, the space and the underscore; the keyed hash is     *)
(* injective on the signed message.                                        *)
Space == 11
Underscore == 12

IntComponent(n) == [kind |-> "int", n |-> n, chars |-> <<>>]
TextComponent(chars) == [kind |-> "text", n |-> 0, chars |-> chars]

RECURSIVE lstrip(_)
lstrip(s) == IF s # <<>> /\ Head(s) = Space THEN lstrip(Tail(s)) ELSE s

RECURSIVE rstrip(_)
rstrip(s) ==
    IF s # <<>> /\ s[Len(s)] = Space THEN rstrip(SubSeq(s, 1, Len(s) - 1)) ELSE s

strip_nothing(s) == s

strip(s) == rstrip(lstrip(s))

(* str(component).strip() *)
stripped_text(c) == strip(IF c.kind = "int" THEN str(c.n) ELSE c.chars)

generate_qr_token_text(registration_id, event_id, user_id) ==
    stripped_text(registration_id) \o <<Underscore>> \o stripped_text(event_id)
        \o <<Underscore>> \o stripped_text(user_id)

verify_qr_token_text(token, registration_id, event_id, user_id) ==
    token = generate_qr_token_text(registration_id, event_id, user_id)

ComponentInputs ==
    { IntComponent(1), TextComponent(<<1>>), TextComponent(<<Space, 1>>),
      IntComponent(2), TextComponent(<<1, Underscore, 2>>),
      TextComponent(<<1, Space, 2, Space>>) }

InitToken ==
    /\ Quiet
    /\ now = 0
    /\ events = EmptyMap
    /\ registrations = EmptyMap
    /\ \E r1, e1, u1, r2, e2, u2 \in ComponentInputs :
          probe = [kind |-> "token", done |-> FALSE,
                   signed |-> <<r1, e1, u1>>, checked |-> <<r2, e2, u2>>,
                   token |-> <<>>, result |-> FALSE]

(* a token generated for one triple, verified against another *)
verify_generated_token ==
    /\ probe.kind = "token"
    /\ ~probe.done
    /\ LET token == generate_qr_token_text(probe.signed[1], probe.signed[2],
                                           probe.signed[3])
       IN  probe' = [probe EXCEPT
                        !.done = TRUE,
                        !.token = token,
                        !.result = verify_qr_token_text(token, probe.checked[1],
                                                        probe.checked[2],
                                                        probe.checked[3])]
    /\ UNCHANGED <<now, events, registrations, botVars>>

SpecToken == InitToken /\ [][verify_generated_token]_vars

-----------------------------------------------------------------------------
(* Updates handled as concurrent tasks.  dp.start_polling(bot) handles     *)
(* each update in a task of its own and the dispatcher isolates no events, *)
(* so a handler runs without interruption from one platform call to the    *)
(* next and other updates are handled while it waits for one.              *)
(* process_fullname makes its first platform call after the create         *)
(* (get_me, then answer and answer_photo) and clears the conversation      *)
(* state when the last one has returned.  probe holds the tasks waiting    *)
(* there.                                                                  *)

NoTasks == [kind |-> "tasks", suspended |-> {}]

Task(user_id, event_id, res, qr_token) ==
    [user_id |-> user_id, event_id |-> event_id,
     registration_id |-> res.registration_id, status |-> res.status,
     qr_token |-> qr_token]

InitRace ==
    /\ now = 0
    /\ events = EmptyMap
    /\ registrations = EmptyMap
    /\ Quiet
    /\ probe = NoTasks

(* process_fullname from the state filter to its first platform call: the  *)
(* name is validated, the user's record updated, the registration created  *)
create_and_suspend(user_id, event_id) ==
    LET qr_token == generate_qr_token(ProvisionalKey(user_id, event_id),
                                      event_id, user_id)
        res == create_registration_result(registrations, events, event_id)
    IN  /\ Cardinality(DOMAIN registrations) < MaxRegs
        /\ users_json' = IF UserKnown(users, user_id)
                         THEN SavedUsers(users) ELSE users_json
        /\ registrations' = create_registration(registrations, events, user_id,
                                                event_id, qr_token, now)
        /\ reply' = Rep("process_fullname", user_id, res.registration_id,
                        event_id, "created", NoToken)
        /\ probe' = [probe EXCEPT
                        !.suspended = @ \cup {Task(user_id, event_id, res, qr_token)}]
        /\ UNCHANGED <<events, users, blacklist, reminders>>

process_fullname_create_rechecking(user_id, name) ==
    /\ fsm[user_id].state = "waiting_fullname"
    /\ IF ~validate_fullname(name)
       THEN /\ reply' = Rep("process_fullname", user_id, 0, fsm[user_id].event_id,
                            "invalid_fullname", NoToken)
            /\ UNCHANGED <<storeVars, probe>>
       ELSE IF HasUserRegistration(registrations, user_id, fsm[user_id].event_id)
       THEN /\ reply' = Rep("process_fullname", user_id, 0, fsm[user_id].event_id,
                            "already", NoToken)
            /\ UNCHANGED <<storeVars, probe>>
       ELSE create_and_suspend(user_id, fsm[user_id].event_id)
    /\ UNCHANGED <<now, fsm, offerKb, cancelKb, adminKb, holds, bc>>

process_fullname_create(user_id, name) ==
    /\ fsm[user_id].state = "waiting_fullname"
    /\ IF ~validate_fullname(name)
       THEN /\ reply' = Rep("process_fullname", user_id, 0, fsm[user_id].event_id,
                            "invalid_fullname", NoToken)
            /\ UNCHANGED <<storeVars, probe>>
       ELSE create_and_suspend(user_id, fsm[user_id].event_id)
    /\ UNCHANGED <<now, fsm, offerKb, cancelKb, adminKb, holds, bc>>

(* process_fullname from the return of its platform calls to its end: the  *)
(* reminders of a registered registration, then state.clear()              *)
process_fullname_resume(task) ==
    /\ task \in probe.suspended
    /\ IF task.registration_id = 0
       THEN /\ reply' = Rep("process_fullname", task.user_id, 0, task.event_id,
                            "registration_error", NoToken)
            /\ UNCHANGED reminders
       ELSE IF task.status = "registered"
       THEN /\ reply' = Rep("process_fullname", task.user_id, task.registration_id,
                            task.event_id, "proof_sent", task.qr_token)
            /\ reminders' = schedule_reminders(reminders, <<"D1", "H6", "H1">>,
                                               task.event_id, task.user_id, events, now)
       ELSE /\ reply' = Rep("process_fullname", task.user_id, task.registration_id,
                            task.event_id, "waitlisted", NoToken)
            /\ UNCHANGED reminders
    /\ fsm' = [fsm EXCEPT ![task.user_id] = Idle]
    /\ probe' = [probe EXCEPT !.suspended = @ \ {task}]
    /\ UNCHANGED <<now, events, users, users_json, registrations, blacklist,
                   offerKb, cancelKb, adminKb, holds, bc>>

NextRace ==
    \/ Tick(Instants)
    \/ \E c \in AdminInputs, cap \in CapacityInputs, st \in StartInputs :
            cmd_post(c, cap, st)
    \/ \E u \in UserIds, e \in 1..MaxEvents : cmd_start(u, e)
    \/ \E u \in UserIds, e \in 1..MaxEvents : start_registration(u, e)
    \/ \E u \in UserIds, n \in NameInputs : process_fullname_create(u, n)
    \/ \E task \in probe.suspended : process_fullname_resume(task)

SpecRace == InitRace /\ [][NextRace]_vars

-----------------------------------------------------------------------------
(* Dispatch of a message update.  The dispatcher tries its own handlers    *)
(* (main.py, in the order they are registered) before the routers it       *)
(* includes (admin_handlers, then checkin_handlers); the first handler     *)
(* whose filter passes takes the update, whatever it then does with it.    *)

Handler(name, filter, arg) == [name |-> name, filter |-> filter, arg |-> arg]

MessageHandlers ==
    << Handler("cmd_start", "command", "start"),
       Handler("process_fullname", "state", "waiting_fullname"),
       Handler("cmd_my_qr", "command", "my_qr"),
       Handler("cmd_my_qr_direct", "command", "my_qr_direct"),
       Handler("cmd_status", "command", "status"),
       Handler("cmd_users", "command", "users"),
       Handler("cmd_check_secret", "command", "check_secret"),
       Handler("cmd_test_token", "command", "test_token"),
       Handler("cmd_fix_tokens", "command", "fix_tokens"),
       Handler("handle_other_messages", "other_text", "none"),
       Handler("admin_reply_buttons", "button", "none"),
       Handler("cmd_scan", "command", "scan"),
       Handler("cmd_checkin", "command", "checkin"),
       Handler("cmd_post", "command", "post"),
       Handler("process_event_post", "state", "waiting_for_event_post"),
       Handler("cmd_cancel", "command", "cancel"),
       Handler("cmd_blacklist", "command", "blacklist"),
       Handler("cmd_admin", "command", "admin"),
       Handler("handle_qr_deeplink", "contains_chk", "none"),
       Handler("handle_qr_photo", "photo", "none"),
       Handler("cmd_start_deeplink", "command", "start") >>

(* A message: whether it has text, the command it starts with ("none" for  *)
(* a text that is no command, "unknown" for a command no handler names),   *)
(* whether the text contains chk_, whether it is one of the six            *)
(* reply-keyboard captions, whether it carries a photo                     *)
Message(text, command, chk, button, photo) ==
    [text |-> text, command |-> command, chk |-> chk, button |-> button,
     photo |-> photo]

StartChk == Message(TRUE, "start", TRUE, FALSE, FALSE)
TextChk == Message(TRUE, "none", TRUE, FALSE, FALSE)
PlainText == Message(TRUE, "none", FALSE, FALSE, FALSE)

MessageInputs ==
    { StartChk, TextChk, PlainText,
      Message(TRUE, "start", FALSE, FALSE, FALSE),
      Message(TRUE, "unknown", TRUE, FALSE, FALSE),
      Message(TRUE, "checkin", FALSE, FALSE, FALSE),
      Message(TRUE, "post", FALSE, FALSE, FALSE),
      Message(TRUE, "cancel", FALSE, FALSE, FALSE),
      Message(TRUE, "blacklist", FALSE, FALSE, FALSE),
      Message(TRUE, "my_qr", FALSE, FALSE, FALSE),
      Message(TRUE, "none", FALSE, TRUE, FALSE),
      Message(FALSE, "none", FALSE, FALSE, TRUE) }

filter_passes(h, message, state) ==
    IF h.filter = "command" THEN message.text /\ message.command = h.arg
    ELSE IF h.filter = "state" THEN state = h.arg
    ELSE IF h.filter = "other_text"
    THEN message.text /\ message.command = "none" /\ ~message.button
    ELSE IF h.filter = "button" THEN message.text /\ message.button
    ELSE IF h.filter = "contains_chk" THEN message.text /\ message.chk
    ELSE message.photo

RECURSIVE first_match(_, _, _)
first_match(handlers, message, state) ==
    IF handlers = <<>> THEN "unhandled"
    ELSE IF filter_passes(Head(handlers), message, state) THEN Head(handlers).name
    ELSE first_match(Tail(handlers), message, state)

propagate_event(message, state) == first_match(MessageHandlers, message, state)

(* The conversation states a sender can be in: only an administrator gets  *)
(* to wait for an event post                                               *)
SenderStates(caller) ==
    {"none", "waiting_fullname"}
    \cup (IF is_admin(caller) THEN {"waiting_for_event_post"} ELSE {})

InitDispatch ==
    /\ Quiet
    /\ now = 0
    /\ events = EmptyMap
    /\ registrations = EmptyMap
    /\ \E c \in Callers, m \in MessageInputs :
       \E st \in SenderStates(c) :
          probe = [kind |-> "dispatch", done |-> FALSE, caller |-> c, message |-> m,
                   state |-> st, handler |-> "none"]

feed_update ==
    /\ probe.kind = "dispatch"
    /\ ~probe.done
    /\ probe' = [probe EXCEPT !.done = TRUE,
                              !.handler = propagate_event(probe.message, probe.state)]
    /\ UNCHANGED <<now, events, registrations, botVars>>

SpecDispatch == InitDispatch /\ [][feed_update]_vars

-----------------------------------------------------------------------------
(* Properties *)

CountIn(seq, x) == Cardinality({i \in 1..Len(seq) : seq[i] = x})

SeatsTaken(regs, event_id) ==
    Cardinality({r \in DOMAIN regs : /\ regs[r].event_id = event_id
                                     /\ regs[r].status \in {"registered", "attended"}})

NewRegistrations == DOMAIN registrations' \ DOMAIN registrations

(* C1: capacity is a ceiling: in every reachable state, for every event,   *)
(* the number of its registrations with status registered or attended is   *)
(* at most the event's capacity.                                           *)
C1_CapacityCeiling ==
    \A e \in DOMAIN events : SeatsTaken(registrations, e) <= events[e].capacity

(* C2: in every reachable state each (user_id, event_id) pair has at most  *)
(* one registration whose status is registered, waitlist or attended.      *)
C2_OneActiveRegistration ==
    \A r1, r2 \in DOMAIN registrations :
        (/\ registrations[r1].user_id = registrations[r2].user_id
         /\ registrations[r1].event_id = registrations[r2].event_id
         /\ registrations[r1].status \in {"registered", "waitlist", "attended"}
         /\ registrations[r2].status \in {"registered", "waitlist", "attended"})
        => r1 = r2

(* C3: a registration is created with status registered exactly when the   *)
(* event's registrations with status registered or attended number fewer   *)
(* than its capacity, and otherwise with status waitlist and the next      *)
(* sequential position: attended registrations count against capacity.     *)
C3_CreateCountsAttended ==
    [][\A r \in NewRegistrations :
          LET e == registrations'[r].event_id
              free == SeatsTaken(registrations, e) < events[e].capacity
          IN  /\ registrations'[r].status = (IF free THEN "registered" ELSE "waitlist")
              /\ ~free => registrations'[r].waitlist_position =
                              get_waitlist_count(registrations, e) + 1]_vars

(* C4: on an event with capacity C and no registrations, with nothing but  *)
(* create-registration calls, the k-th call for the event returns status   *)
(* registered for k <= C and status waitlist with position k - C for       *)
(* k > C, and stores what it returns; a call for an unknown event returns  *)
(* the absent triple and stores nothing.                                   *)
C4_CreateSequence ==
    LET k == Cardinality(DOMAIN registrations)
        C == events[1].capacity
    IN  /\ \A r \in DOMAIN registrations :
              /\ r <= C => /\ registrations[r].status = "registered"
                           /\ registrations[r].waitlist_position = NoPosition
              /\ r > C => /\ registrations[r].status = "waitlist"
                          /\ registrations[r].waitlist_position = r - C
        /\ (probe.done /\ probe.event_id = 1) =>
              /\ probe.stored
              /\ probe.result.registration_id = k
              /\ probe.result.status = registrations[k].status
              /\ probe.result.waitlist_position = registrations[k].waitlist_position
        /\ (probe.done /\ probe.event_id # 1) =>
              /\ ~probe.stored
              /\ probe.result.registration_id = 0
              /\ probe.result.status = "none"
              /\ probe.result.waitlist_position = NoPosition

C4_FourthOfCapacityTwo ==
    /\ probe.done
    /\ probe.event_id = 1
    /\ events[1].capacity = 2
    /\ Cardinality(DOMAIN registrations) = 4
    /\ probe.result.status = "waitlist"
    /\ probe.result.waitlist_position = 2
    /\ registrations[1].status = "registered"
    /\ registrations[2].status = "registered"
    /\ registrations[3].waitlist_position = 1

(* C5: the check-in window evaluation is true exactly when                 *)
(* start_at + start_offset <= now <= start_at + end_offset, both ends      *)
(* inclusive, with the event's stored offsets when present and -60 and     *)
(* +120 minutes otherwise: with the default offsets T-61 is rejected,      *)
(* T-60 and T+120 are accepted, T+121 is rejected.                         *)
C5_CheckinWindow ==
    probe.done =>
        LET ev == probe.event
            T == ev.start_at
            lo == IF "checkin_window_start_minutes" \in DOMAIN ev
                  THEN ev.checkin_window_start_minutes ELSE 0 - 60
            hi == IF "checkin_window_end_minutes" \in DOMAIN ev
                  THEN ev.checkin_window_end_minutes ELSE 120
        IN  /\ probe.result <=> (T + lo <= now /\ now <= T + hi)
            /\ DOMAIN ev = {"start_at"} =>
                  /\ now = T - 61 => ~probe.result
                  /\ now = T - 60 => probe.result
                  /\ now = T + 120 => probe.result
                  /\ now = T + 121 => ~probe.result

C5_AcceptedAtOpeningEdge ==
    /\ probe.done
    /\ DOMAIN probe.event = {"start_at"}
    /\ now = probe.event.start_at - 60
    /\ probe.result

(* C6: at time now an event is in the upcoming set iff start_at > now and  *)
(* in the past set iff start_at <= now - 2 hours; the sets are disjoint    *)
(* and an event with now - 2h < start_at <= now is in neither (start =     *)
(* now + 1h: upcoming only; now - 3h: past only; now - 1h: neither).       *)
C6_EventClassification ==
    probe.done =>
        /\ probe.upcoming \cap probe.past = {}
        /\ \A e \in DOMAIN events :
              LET st == events[e].start_at IN
              /\ e \in probe.upcoming <=> st > now
              /\ e \in probe.past <=> st <= now - 120
              /\ (now - 120 < st /\ st <= now) => e \notin probe.upcoming \cup probe.past
              /\ st = now + 60 => e \in probe.upcoming /\ e \notin probe.past
              /\ st = now - 180 => e \in probe.past /\ e \notin probe.upcoming
              /\ st = now - 60 => e \notin probe.upcoming \cup probe.past

C6_StartedEventInNeither ==
    /\ probe.done
    /\ events[1].start_at = now - 60
    /\ 1 \notin probe.upcoming \cup probe.past
    /\ events[2].start_at = now - 180
    /\ probe.past = {2}

(* C7: no registration record is ever created for a user who is in the    *)
(* block-list at the moment of creation, at whichever step of the          *)
(* registration flow the user is.                                          *)
C7_NoRegistrationWhileBlocked ==
    [][\A r \in NewRegistrations :
          ~is_blacklisted(blacklist, registrations'[r].user_id)]_vars

(* C8: a block-listed user invoking /my_qr or the "my code" button is      *)
(* refused: no proof is sent, whatever registration the user holds.        *)
C8_NoProofWhileBlocked ==
    (/\ reply.op \in {"cmd_my_qr", "my_qr_code_handler"}
     /\ is_blacklisted(blacklist, reply.to))
    => reply.text # "proof_sent"

(* C9: in either broadcast, the user whose turn in the fan-out is reached  *)
(* is sent nothing when in the block-list at that moment and is sent to    *)
(* once otherwise; a finished fan-out has made exactly one send attempt    *)
(* to each user it did not skip and none to the users it skipped.          *)
C9_TurnsSoFar ==
    /\ bc.pos = Len(bc.attempts) + Len(bc.skipped)
    /\ \A i \in 1..bc.pos :
          LET u == bc.users_to_process[i].user_id IN
          CountIn(bc.attempts, u) + CountIn(bc.skipped, u) = 1
    /\ bc.pc = "done" => bc.pos = Len(bc.users_to_process)

C9_Turn ==
    (bc.pc = "running" /\ bc'.pos = bc.pos + 1) =>
        LET u == bc.users_to_process[bc'.pos].user_id IN
        IF u \in blacklist
        THEN bc'.attempts = bc.attempts
        ELSE bc'.attempts = Append(bc.attempts, u)

C9_BroadcastSkipsBlocked == []C9_TurnsSoFar /\ [][C9_Turn]_vars

C9_OneSentOneSkipped ==
    /\ bc.pc = "done"
    /\ bc.kind = "event"
    /\ Len(bc.attempts) = 1
    /\ Len(bc.skipped) = 1
    /\ bc.skipped[1] \in blacklist

(* C10: the administrator's check-in toggle applied to a registered        *)
(* registration sets status attended and records the check-in time;        *)
(* applied to an attended registration it sets status registered and       *)
(* leaves checkin_at as it was; every toggle answers with one of the two   *)
(* outcomes.                                                               *)
C10_Toggle ==
    (reply'.op = "admin_manual_checkin" /\ registrations' # registrations) =>
        LET r == reply'.rid
            before == registrations[r]
            after == registrations'[r]
        IN  /\ before.status = "registered" =>
                  /\ after.status = "attended"
                  /\ after.checkin_at = now
                  /\ reply'.text = "marked"
            /\ before.status = "attended" =>
                  /\ after.status = "registered"
                  /\ after.checkin_at = before.checkin_at
                  /\ reply'.text = "mark_removed"

ReminderTypes == {"D1", "H6", "H1"}

(* C11: when the registration dialogue creates a registration with status  *)
(* registered at time now for an event starting at S, a reminder of type   *)
(* D1, H6, H1 exists afterwards exactly when S - 1 day, S - 6 hours,       *)
(* S - 1 hour respectively is strictly later than now; a waitlist outcome  *)
(* creates no reminder.                                                    *)
C11_RemindersAtRegistration ==
    [][\A r \in NewRegistrations :
          LET reg == registrations'[r]
              S == events[reg.event_id].start_at
          IN  IF reg.status = "registered"
              THEN \A type \in ReminderTypes :
                      <<reg.event_id, reg.user_id, type>> \in DOMAIN reminders'
                      <=> S - ReminderOffset(type) > now
              ELSE reminders' = reminders]_vars

(* C12: waitlist-place acceptance on a registration whose status is        *)
(* waitlist sets its status to registered; an attempt on a registration    *)
(* that is not waitlist is answered with the place-already-taken reply and *)
(* changes nothing in the store; a registration that has left the waitlist *)
(* never returns to it, so every further attempt on it is rejected.        *)
C12_Acceptance ==
    \A r \in DOMAIN registrations :
        /\ take_place_from_waitlist(r) =>
              IF registrations[r].status = "waitlist"
              THEN /\ registrations'[r].status = "registered"
                   /\ reply'.text = "proof_sent"
              ELSE /\ reply'.text = "place_taken"
                   /\ reply'.rid = r
                   /\ UNCHANGED storeVars
        /\ registrations[r].status # "waitlist" => registrations'[r].status # "waitlist"

C12_AcceptOnce == [][C12_Acceptance]_vars

C12_SecondAttemptRejected ==
    /\ reply.op = "take_place_from_waitlist"
    /\ reply.text = "place_taken"
    /\ registrations[reply.rid].status = "registered"
    /\ registrations[reply.rid].waitlist_position = 1

(* C13: after a waitlist-place acceptance the registration's stored proof  *)
(* token is a newly generated value, different from the token the          *)
(* registration held before the offer, and it verifies against the         *)
(* registration's own (registration_id, event_id, user_id).                *)
C13_FreshVerifiableToken ==
    [][\A r \in DOMAIN registrations :
          (take_place_from_waitlist(r) /\ registrations[r].status = "waitlist") =>
              /\ registrations'[r].qr_token # registrations[r].qr_token
              /\ verify_qr_token(registrations'[r].qr_token, RegistrationKey(r),
                                 registrations[r].event_id,
                                 registrations[r].user_id)]_vars

(* C14: next-event-id is "001" for an empty collection and otherwise the   *)
(* three-digit zero-padded text of one plus the greatest numeric id, ids   *)
(* that are not numeric being ignored ({"001","003"} gives "004");         *)
(* next-registration-id is 1 for an empty collection and one plus the      *)
(* greatest numeric id otherwise; neither returns an id already present.   *)
C14_NextIds ==
    LET keys == probe.keys
        numeric == {int(k) : k \in {x \in keys : isdigit(x)}}
        greatest == IF numeric = {} THEN 0 ELSE Max(numeric)
    IN  /\ probe.event_done =>
              /\ keys = {} => probe.event_id = <<0, 0, 1>>
              /\ isdigit(probe.event_id)
              /\ Len(probe.event_id) = 3
              /\ int(probe.event_id) = greatest + 1
              /\ probe.event_id \notin keys
              /\ keys = {<<0, 0, 1>>, <<0, 0, 3>>} => probe.event_id = <<0, 0, 4>>
        /\ probe.registration_done =>
              /\ keys = {} => probe.registration_id = 1
              /\ probe.registration_id = greatest + 1
              /\ \A k \in keys : isdigit(k) => int(k) # probe.registration_id

C14_FourAfterOneAndThree ==
    /\ probe.event_done
    /\ probe.registration_done
    /\ probe.keys = {<<0, 0, 1>>, <<0, 0, 3>>, <<Letter>>}
    /\ probe.event_id = <<0, 0, 4>>
    /\ probe.registration_id = 4

ChangedComponents(t1, t2) == {i \in 1..3 : t1[i] # t2[i]}

(* the text of a component as a reader takes it: the decimal digits of an  *)
(* integer, a text without its surrounding spaces                          *)
SameText(c1, c2) ==
    LET inner(s) == {i \in 1..Len(s) : s[i] # Space}
        trimmed(s) == IF inner(s) = {} THEN <<>>
                      ELSE SubSeq(s, CHOOSE i \in inner(s) : \A j \in inner(s) : i <= j,
                                  Max(inner(s)))
        text(c) == IF c.kind = "int" THEN str(c.n) ELSE trimmed(c.chars)
    IN  text(c1) = text(c2)

(* C16: verifying the token generated for a triple against the same triple *)
(* succeeds, and verifying it against a triple that differs in any one     *)
(* component fails.                                                        *)
C16_RoundTripAnyChange ==
    probe.done =>
        /\ probe.checked = probe.signed => probe.result
        /\ Cardinality(ChangedComponents(probe.signed, probe.checked)) = 1
              => ~probe.result

(* C16, amended: verifying the token generated for a triple against the    *)
(* same triple succeeds, and verifying it against a triple that differs in *)
(* one component fails exactly when the two values of that component       *)
(* differ as texts, once coerced to text and stripped of surrounding       *)
(* whitespace.                                                             *)
C16_RoundTrip ==
    probe.done =>
        /\ probe.checked = probe.signed => probe.result
        /\ \A i \in 1..3 :
              ChangedComponents(probe.signed, probe.checked) = {i} =>
                  (probe.result <=> SameText(probe.signed[i], probe.checked[i]))

C16_ChangedEventRejected ==
    /\ probe.done
    /\ ChangedComponents(probe.signed, probe.checked) = {2}
    /\ probe.signed[2] = IntComponent(1)
    /\ probe.checked[2] = IntComponent(2)
    /\ ~probe.result

(* C17: every administrator operation (event creation, check-in by id, the *)
(* per-registration check-in toggle, the per-event views, the block-list   *)
(* commands) first checks the caller against the configured administrator  *)
(* ids: a step of one of them for a caller who is not an administrator     *)
(* changes nothing in the durable store.                                   *)
C17_AdminGate ==
    [][\A c \in Callers \ ADMIN_IDS :
          (\/ \E cap \in CapacityInputs, st \in StartInputs : cmd_post(c, cap, st)
           \/ \E r \in 1..MaxRegs : cmd_checkin(c, r)
           \/ \E r \in DOMAIN registrations : admin_manual_checkin(c, r)
           \/ \E e \in 1..MaxEvents : admin_event_registrations(c, e)
           \/ \E a \in {"add", "remove", "clear"}, u \in BlacklistInputs :
                 cmd_blacklist(c, a, u))
          => UNCHANGED storeVars]_vars

(* C18: for every event whose start time is at or before now minus 2       *)
(* hours the hourly attendance follow-up processes it: a registration of   *)
(* the event in status registered with an empty check-in timestamp does    *)
(* not stay so for ever; it is given status no_show (unless a check-in     *)
(* takes it out of that condition first).                                  *)
C18_Overdue(r) ==
    IF r \in DOMAIN registrations
    THEN /\ registrations[r].status = "registered"
         /\ registrations[r].checkin_at = NoTime
         /\ events[registrations[r].event_id].start_at <= now - GRACE_PERIOD
    ELSE FALSE

C18_NoShowsFollowedUp ==
    \A r \in 1..MaxRegs : C18_Overdue(r) ~> ~C18_Overdue(r)

(* C19: two registration attempts of one user for one event that run       *)
(* concurrently both get through, and a state with two registrations for   *)
(* the same person and event is reachable: nothing spans the existence     *)
(* check and the create.  The create step of process_fullname, taken by a  *)
(* user whose conversation waits for a name for an existing event, adds a  *)
(* registration for that user and event whether or not one exists already. *)
C19_CreateStep(u, n) ==
    /\ process_fullname_create(u, n)
    /\ validate_fullname(n)
    /\ event_exists(events, fsm[u].event_id)

C19_CreateNeverRechecks ==
    [][\A u \in UserIds, n \in NameInputs :
          C19_CreateStep(u, n)
          => \E r \in DOMAIN registrations' \ DOMAIN registrations :
                /\ registrations'[r].user_id = u
                /\ registrations'[r].event_id = fsm[u].event_id]_vars

C19_TwoRegistrationsInFlight ==
    \E t1, t2 \in probe.suspended :
        /\ t1.registration_id # 0
        /\ t2.registration_id # 0
        /\ t1.registration_id # t2.registration_id
        /\ t1.user_id = t2.user_id
        /\ t1.event_id = t2.event_id
        /\ \A t \in {t1, t2} :
              /\ t.registration_id \in DOMAIN registrations
              /\ registrations[t.registration_id].user_id = t.user_id
              /\ registrations[t.registration_id].event_id = t.event_id
              /\ fsm[t.user_id] = WaitingFullname(t.event_id)

(* C20: a registration's status changes only from waitlist to registered,  *)
(* from registered to attended, from attended to registered, from          *)
(* registered to no_show, and from registered or waitlist to cancelled: no *)
(* operation marks a cancelled, no_show or waitlist registration attended, *)
(* none cancels an attended, no_show or cancelled one, and cancelled and   *)
(* no_show are terminal.                                                   *)
StatusTransitions ==
    {<<"waitlist", "registered">>, <<"registered", "attended">>,
     <<"attended", "registered">>, <<"registered", "no_show">>,
     <<"registered", "cancelled">>, <<"waitlist", "cancelled">>}

C20_StatusTransitions ==
    [][\A r \in DOMAIN registrations :
          /\ r \in DOMAIN registrations'
          /\ \/ registrations'[r].status = registrations[r].status
             \/ <<registrations[r].status, registrations'[r].status>>
                    \in StatusTransitions]_vars

(* C21: the direct check-in handler marks a registration attended, with    *)
(* the current timestamp, only if the signature verifies against the       *)
(* registration's (registration_id, event_id, user_id), the owner is not   *)
(* block-listed, the caller is the owner, the status is not cancelled,     *)
(* attended or waitlist, and the event's check-in window is open; if any   *)
(* of these fails the registrations are left unchanged.                    *)
C21_Conditions(c, r, signature) ==
    /\ r \in DOMAIN registrations
    /\ signature = <<r, registrations[r].event_id, registrations[r].user_id>>
    /\ registrations[r].user_id \notin blacklist
    /\ registrations[r].user_id = c
    /\ registrations[r].status \notin {"cancelled", "attended", "waitlist"}
    /\ registrations[r].event_id \in DOMAIN events
    /\ LET ev == events[registrations[r].event_id]
       IN  /\ ev.start_at + ev.checkin_window_start_minutes <= now
           /\ now <= ev.start_at + ev.checkin_window_end_minutes

C21_DirectCheckin ==
    [][\A c \in UserIds, r \in 1..MaxRegs, signature \in SignatureInputs :
          (reply'.op = "cmd_start_deeplink" /\ cmd_start_deeplink(c, r, signature))
          => IF C21_Conditions(c, r, signature)
             THEN /\ registrations'[r].status = "attended"
                  /\ registrations'[r].checkin_at = now
                  /\ \A q \in DOMAIN registrations \ {r} :
                        registrations'[q] = registrations[q]
             ELSE registrations' = registrations]_vars

C21_OwnerCheckedIn ==
    /\ reply.op = "cmd_start_deeplink"
    /\ reply.text = "checked_in"
    /\ reply.rid \in DOMAIN registrations
    /\ registrations[reply.rid].user_id = reply.to
    /\ registrations[reply.rid].status = "attended"
    /\ registrations[reply.rid].checkin_at = now
    /\ \E q \in DOMAIN registrations : q # reply.rid

(* C22: the proof token the registration dialogue issues and stores for a  *)
(* registered registration verifies against that registration's            *)
(* (registration_id, event_id, user_id), so the check-in link sent with it *)
(* passes the signature verification of the direct check-in handler.       *)
C22_TokenBoundToRegistration ==
    (reply.op = "process_fullname" /\ reply.text = "proof_sent")
    => /\ registrations[reply.rid].qr_token = reply.token
       /\ verify_qr_token(reply.token, RegistrationKey(reply.rid),
                          registrations[reply.rid].event_id,
                          registrations[reply.rid].user_id)

(* C23: dispatch order shadows no specified handler: a /start command      *)
(* whose argument starts with chk_ is taken by the direct check-in         *)
(* handler, an administrator's free text containing chk_ by the            *)
(* forwarded-code handler, and an administrator's text sent while awaiting *)
(* the event post by the post-attachment handler.                          *)
C23_NoShadowing ==
    probe.done =>
        /\ probe.message = StartChk => probe.handler = "cmd_start_deeplink"
        /\ (is_admin(probe.caller) /\ probe.state = "none" /\ probe.message = TextChk)
           => probe.handler = "handle_qr_deeplink"
        /\ (is_admin(probe.caller) /\ probe.state = "waiting_for_event_post"
            /\ probe.message \in {PlainText, TextChk})
           => probe.handler = "process_event_post"

(* C24: the administrator's forwarded-code check-in accepts the signature  *)
(* of a chk_<registration_id>_<signature> payload if and only if it equals *)
(* the registration's stored proof token or verifies against the           *)
(* registration's (registration_id, event_id, user_id); in the second case *)
(* the stored token is replaced by the presented signature; a signature    *)
(* satisfying neither is rejected and nothing changes.                     *)
C24_ForwardedCode ==
    [][\A c \in AdminInputs, r \in DOMAIN registrations, signature \in SignatureInputs :
          (reply'.op = "process_qr_deeplink" /\ process_qr_deeplink(c, r, signature))
          => LET reg == registrations[r]
                 stored == signature = reg.qr_token
                 verifies == signature = <<r, reg.event_id, reg.user_id>>
             IN  /\ reply'.text # "invalid_code" <=> (stored \/ verifies)
                 /\ (~stored /\ verifies) => registrations'[r].qr_token = signature
                 /\ stored => registrations'[r].qr_token = reg.qr_token
                 /\ (~stored /\ ~verifies) => registrations' = registrations]_vars

C24_VerifiedSignatureStored ==
    /\ reply.op = "process_qr_deeplink"
    /\ reply.text = "checked_in"
    /\ reply.rid \in DOMAIN registrations
    /\ reply.token = <<reply.rid, registrations[reply.rid].event_id,
                       registrations[reply.rid].user_id>>
    /\ registrations[reply.rid].qr_token = reply.token
    /\ registrations[reply.rid].status = "attended"

(* C25: a check-in attempt rejected for a state conflict (registration     *)
(* cancelled, already attended, on the waitlist, or outside the check-in   *)
(* window), on the direct deep-link path, the /checkin path or the         *)
(* administrator's forwarded-code path, leaves every collection of the     *)
(* store unchanged, the registration's proof token and updated_at          *)
(* included.                                                               *)
CheckinPaths == {"cmd_start_deeplink", "cmd_checkin", "process_qr_deeplink"}
StateConflicts == {"cancelled", "attended", "waitlist", "already_attended",
                   "wrong_status", "outside_window"}

C25_RejectedCheckinWritesNothing ==
    [][(reply'.op \in CheckinPaths /\ reply'.text \in StateConflicts)
          => UNCHANGED storeVars]_vars

(* C26: after a sync pass every existing tab of a synced collection holds  *)
(* the header row followed by exactly one row per current record of the    *)
(* collection, and no stale row, whatever the collection holds, an empty   *)
(* collection included.                                                    *)
DataRows(sheet) == SelectSeq(sheet, LAMBDA row : row # HeaderRow)

C26_TabMirrorsStore ==
    probe.passes >= 1 =>
        \A title \in DOMAIN probe.sheets \cap SyncedTitles :
            DataRows(probe.sheets[title]) = rows_to_update(title)

(* C27: whenever a registration's status becomes registered, at creation   *)
(* or by waitlist-place acceptance, a reminder is created for each of D1,  *)
(* H6 and H1 whose scheduled time still lies in the future at that moment. *)
BecomesRegistered(r) ==
    /\ r \in DOMAIN registrations'
    /\ registrations'[r].status = "registered"
    /\ IF r \in DOMAIN registrations
       THEN registrations[r].status = "waitlist"
       ELSE TRUE

C27_RemindersWhenRegistered ==
    [][\A r \in 1..MaxRegs :
          BecomesRegistered(r)
          => LET reg == registrations'[r]
                 S == events[reg.event_id].start_at
             IN  \A type \in ReminderTypes :
                    S - ReminderOffset(type) > now
                    => /\ <<reg.event_id, reg.user_id, type>> \in DOMAIN reminders'
                       /\ reminders'[<<reg.event_id, reg.user_id, type>>]
                            = [scheduled_for |-> S - ReminderOffset(type),
                               sent_at |-> NoTime]]_vars

C29_SentOnce ==
    [][\A k \in DOMAIN reminders :
          reminders[k].sent_at # NoTime
             => /\ k \in DOMAIN reminders'
                /\ reminders'[k].sent_at = reminders[k].sent_at
                /\ k \notin PendingReminders(reminders', now')]_vars

C29_RegisteredAgainAfterReminder ==
    /\ reply.op = "process_fullname"
    /\ \E r \in DOMAIN registrations, q \in DOMAIN registrations :
          /\ r < q
          /\ registrations[r].status = "cancelled"
          /\ registrations[q].status = "registered"
          /\ registrations[q].user_id = registrations[r].user_id
          /\ registrations[q].event_id = registrations[r].event_id
          /\ reply.rid = q
          /\ LET e == registrations[q].event_id
                 u == registrations[q].user_id
             IN  /\ <<e, u, "D1">> \in DOMAIN reminders
                 /\ reminders[<<e, u, "D1">>].sent_at # NoTime
                 /\ <<e, u, "H1">> \in DOMAIN reminders
                 /\ reminders[<<e, u, "H1">>].sent_at = NoTime
                 /\ reminders[<<e, u, "H1">>].scheduled_for > now

(* C30: when the hold of a place offer expires with the offered            *)
(* registration still on the waitlist and the event has other waitlist     *)
(* registrations, the place is offered onward: the offer that follows the  *)
(* expiry goes to a different waitlist registration of the event.          *)
C30_OfferedOnward ==
    [][(/\ reply'.op = "revoke_place_offer"
        /\ reply'.text = "expired"
        /\ \E j \in holds : revoke_place_offer(j, TRUE)
        /\ \E q \in DOMAIN registrations :
              /\ q # reply'.rid
              /\ registrations[q].event_id = reply'.eid
              /\ registrations[q].status = "waitlist")
          => \E j \in holds' \ holds :
                /\ j.rid # reply'.rid
                /\ j.eid = reply'.eid
                /\ registrations[j.rid].status = "waitlist"]_vars

(* C31: an acceptance of a waitlist place succeeds only while an offer to  *)
(* that registration is outstanding: a registration goes from waitlist to  *)
(* registered by take_place_from_waitlist only when a hold job of an offer *)
(* sent to it is still pending; otherwise it stays on the waitlist.        *)
C31_AcceptedWhileHeld ==
    [][\A r \in DOMAIN registrations :
          (/\ reply'.op = "take_place_from_waitlist"
           /\ reply'.rid = r
           /\ registrations[r].status = "waitlist"
           /\ registrations'[r].status = "registered")
             => \E j \in holds : j.rid = r]_vars

(* C32: each cancellation is acted on at most once by the waitlist sweep:  *)
(* a sweep sends no offer to a waitlisted registration that was already    *)
(* offered the place and whose hold is still pending.                      *)
C32_OneOfferPerCancellation ==
    [][process_waitlist
          => \A r \in OfferTargets(registrations, SweepEvents) :
                /\ r \notin offerKb
                /\ ~\E j \in holds : j.rid = r]_vars

(* C33: freed places go to the waitlist first: while an event has a        *)
(* registration with status waitlist, a newly created registration for     *)
(* that event is never given status registered.                            *)
C33_WaitlistFirst ==
    [][\A r \in DOMAIN registrations' \ DOMAIN registrations :
          (\E q \in DOMAIN registrations :
              /\ registrations[q].event_id = registrations'[r].event_id
              /\ registrations[q].status = "waitlist")
             => registrations'[r].status # "registered"]_vars

(* C34: waitlist positions follow arrival order: of two registrations of   *)
(* one event that were created with status waitlist, the later-created one *)
(* has the strictly larger waitlist_position.                              *)
C34_PositionsFollowArrival ==
    \A r \in DOMAIN registrations, q \in DOMAIN registrations :
       (/\ r < q
        /\ registrations[r].event_id = registrations[q].event_id
        /\ registrations[r].waitlist_position # NoPosition
        /\ registrations[q].waitlist_position # NoPosition)
          => registrations[r].waitlist_position < registrations[q].waitlist_position

(* C35: in every reachable state each event has at most one registration   *)
(* with status waitlist and waitlist_position 1.                           *)
C35_OneFirstInLine ==
    \A e \in DOMAIN events : Cardinality(OfferCandidates(registrations, e)) <= 1

C35_FirstPositionGivenAgain ==
    \E r \in DOMAIN registrations, q \in DOMAIN registrations :
       /\ r < q
       /\ registrations[r].event_id = registrations[q].event_id
       /\ registrations[r].waitlist_position = 1
       /\ registrations[r].status = "registered"
       /\ registrations[q].waitlist_position = 1
       /\ registrations[q].status = "waitlist"

(* C36: no registration is created for an event that has passed, that is   *)
(* whose start is at or before now minus the grace period.                 *)
C36_NoRegistrationForPassedEvent ==
    [][\A r \in DOMAIN registrations' \ DOMAIN registrations :
          events[registrations'[r].event_id].start_at > now - GRACE_PERIOD]_vars

(* C37: every stored event has a positive capacity: /post with a capacity  *)
(* of zero or less creates no event.                                       *)
C37_PositiveCapacity ==
    \A e \in DOMAIN events : events[e].capacity > 0

(* C38: the registration dialogue follows idle, waiting_fullname, idle: a  *)
(* full name that fails validation stores nothing and leaves the session   *)
(* waiting; after a valid full name was processed the session is idle      *)
(* whatever the outcome, so that a repeated name creates no second         *)
(* registration.                                                           *)
C38_DialogueEnds ==
    [][\A u \in UserIds :
          (/\ reply'.op = "process_fullname"
           /\ reply'.to = u
           /\ fsm[u].state = "waiting_fullname"
           /\ \E n \in NameInputs, ok \in BOOLEAN : process_fullname(u, n, ok))
             => IF reply'.text = "invalid_fullname"
                THEN /\ fsm'[u] = fsm[u]
                     /\ UNCHANGED storeVars
                ELSE fsm'[u] = Idle]_vars

(* C40: checkin_at is written only by a transition to attended; a          *)
(* registration is created with an empty checkin_at, and every             *)
(* registration with status attended has a non-empty checkin_at.           *)
C40_CheckinAtOnlyWhenAttended ==
    [][\A r \in DOMAIN registrations' :
          /\ r \notin DOMAIN registrations
                => registrations'[r].checkin_at = NoTime
          /\ (/\ r \in DOMAIN registrations
              /\ registrations'[r].checkin_at # registrations[r].checkin_at)
                => /\ registrations[r].status # "attended"
                   /\ registrations'[r].status = "attended"
          /\ registrations'[r].status = "attended"
                => registrations'[r].checkin_at # NoTime]_vars

C40_MarkedAttended ==
    /\ reply.op = "admin_manual_checkin"
    /\ reply.text = "marked"
    /\ registrations[reply.rid].status = "attended"
    /\ registrations[reply.rid].checkin_at = now
    /\ registrations[reply.rid].updated_at = now
    /\ now > 0

====
